---- MODULE Spec2Model ----
(***************************************************************************)
(* FluxLite connectivity core: the transport client (IoClient), port       *)
(* discovery and the liveness tracker of HardwareService.                  *)
(*                                                                         *)
(* Each component has its own specification over its own variables (the    *)
(* others stay at their initial values):                                   *)
(*   SpecReconnect / FairSpecReconnect   IoClient._run_forever, stop, emit *)
(*   SpecDispatch                        IoClient inbound dispatch         *)
(*   SpecDiscovery                       _discover_socket_port             *)
(*   SpecLiveness                        HardwareService._on_json          *)
(*   SpecPresence                        connection lifecycle, presence    *)
(*   SpecDirectory                       device and group list handlers    *)
(*   SpecGroups                          group cache: lookup and matching  *)
(*   SpecFormation                       the mound group creation protocol *)
(*   SpecInterleaving                    overlapping creation requests     *)
(*   SpecEpochs                          events of a replaced client       *)
(*   SpecAutoConnect                     the auto_connect thread           *)
(*   SpecQtQueue                         _post_to_qt and its drain         *)
(*   SpecDeviceTypes                     device types of the device list   *)
(*   SpecCreation                        the creation payload              *)
(***************************************************************************)
EXTENDS Integers, Sequences, FiniteSets, Bags, TLC

VARIABLES
    \* ---- IoClient: reconnect loop, stop(), emit() ----
    pc,               \* position of IoClientThread in _run_forever
    backoff_s,        \* local backoff_s, in units of 10 ns
    lastDelay,        \* history: the delay this run of the loop slept last (0: none yet)
    stop_flag,        \* IoClient._stop_flag
    sio_connected,    \* self._sio.connected
    status_connected, \* self.status.connected (written by the owner's handlers)
    last_error,       \* self.status.last_error
    stopPc,           \* position of the thread that called stop()
    stopCaller,       \* who is inside stop(): "owner" or "handler" (the dispatch thread)
    emitCalls,        \* number of calls of IoClient.emit
    sendAttempts,     \* number of calls of self._sio.emit it made
    lastEmit,         \* outcome of the latest emit call
    \* ---- IoClient: inbound dispatch ----
    on_json,          \* self._on_json is set (set_json_callback)
    handlers,         \* what on() / once() registered with self._sio, per event
    lastIn,           \* the latest inbound event
    lastCall,         \* the handler invocation that delivery made, if any
    escaped,          \* an exception left IoClient's code into the transport's dispatcher
    \* ---- HardwareService._discover_socket_port ----
    disc_pc,          \* "idle", "probing" (inside the for loop) or "returned"
    disc_next,        \* index of the next candidate path to request
    disc_result,      \* the value returned
    disc_doc,         \* the JSON document the returned port was found in
    disc_probed,      \* the paths requested so far, in order
    disc_kinds,       \* history: the kinds of per-candidate outcome met so far
    disc_missed,      \* history: a candidate served a qualifying key and was passed over
    \* ---- HardwareService: liveness tracker ----
    now,              \* the clock, time.time()
    device_last_seen, \* self._device_last_seen
    active_devices,   \* self._active_devices, the set last notified
    lastPacket,       \* the latest call of _on_json: when, and what it did
    seen_at,          \* history: when each id was last carried by a packet
    \* ---- HardwareService: what its handlers and methods leave behind ----
    client,           \* self.client is not None
    connected_devices,\* self._connected_devices
    hw_call,          \* the latest call of a HardwareService handler or method
    hw_signals,       \* the Qt signals that call emitted, in order
    hw_emits,         \* the commands that call sent with self.client.emit, in order
    \* ---- HardwareService: the directory cache ----
    groups,           \* self._groups, a list of JSON values
    group_definitions,\* self._group_definitions
    groups_current,   \* history: self._groups was written since the connection last changed
    \* ---- HardwareService: mound group creation ----
    requests,         \* the calls of _create_mound_group that sent a request, in order
    status_handler,   \* whose on_create_status the client has registered (0: none)
    timers,           \* the QTimer.singleShot calls still pending
    \* ---- HardwareService: replaced clients, the auto_connect thread ----
    replaced_sio,     \* the transport of the IoClient that connect() stopped and replaced last
    auto,             \* the thread of auto_connect: its position, the checks left of its wait
    shutdown,         \* history: the owner called disconnect(), and no connect() or auto_connect() since
    \* ---- HardwareService: the queue of calls for the Qt thread ----
    qt_call_queue,    \* self._qt_call_queue, the callables by their numbers
    qt_posting,       \* per posting thread: the callable it appended and has not scheduled yet (0: none)
    qt_drains,        \* the queued invocations of _drain_qt_call_queue
    qt_drain,         \* the Qt thread inside _drain_qt_call_queue: its position and fn
    qt_posted,        \* history: the callables in the order they were appended
    qt_ran            \* history: the callables run, in order, with the thread that ran each

varsReconnect ==
    <<pc, backoff_s, lastDelay, stop_flag, sio_connected, status_connected,
      last_error, stopPc, stopCaller, emitCalls, sendAttempts, lastEmit>>

varsDispatch == <<on_json, handlers, lastIn, lastCall, escaped>>

varsDiscovery ==
    <<disc_pc, disc_next, disc_result, disc_doc, disc_probed, disc_kinds, disc_missed>>

varsLiveness == <<now, device_last_seen, active_devices, lastPacket, seen_at>>

varsService == <<client, connected_devices, hw_call, hw_signals, hw_emits>>

varsDirectory == <<groups, group_definitions, groups_current>>

varsFormation == <<requests, status_handler, timers>>

varsLifecycle == <<replaced_sio, auto, shutdown>>

varsQt == <<qt_call_queue, qt_posting, qt_drains, qt_drain, qt_posted, qt_ran>>

vars ==
    <<varsReconnect, varsDispatch, varsDiscovery, varsLiveness, varsService,
      varsDirectory, varsFormation, varsLifecycle, varsQt>>

\* what each component leaves alone
outsideReconnect ==
    <<varsDispatch, varsDiscovery, varsLiveness, varsService, varsDirectory,
      varsFormation, varsLifecycle, varsQt>>

outsideDispatch ==
    <<pc, backoff_s, lastDelay, stop_flag, sio_connected, status_connected,
      stopPc, stopCaller, emitCalls, sendAttempts, lastEmit, varsDiscovery,
      varsLiveness, varsService, varsDirectory, varsFormation, varsLifecycle,
      varsQt>>

outsideDiscovery ==
    <<varsReconnect, varsDispatch, varsLiveness, varsService, varsDirectory,
      varsFormation, varsLifecycle, varsQt>>

outsideLiveness ==
    <<varsReconnect, varsDispatch, varsDiscovery, varsFormation, varsLifecycle, varsQt>>

\* what HardwareService's own code leaves alone: of the client it writes
\* status.connected only (IoClient's methods are modelled above)
outsideLifecycle ==
    <<pc, backoff_s, lastDelay, stop_flag, sio_connected, last_error, stopPc,
      stopCaller, emitCalls, sendAttempts, lastEmit, varsDispatch, varsDiscovery,
      varsQt>>

\* the same, for the code that neither replaces a client nor is run by the
\* auto_connect thread
outsideHardware == <<outsideLifecycle, varsLifecycle>>

\* the same and the creation protocol, for the code that is no part of it
outsideService == <<outsideHardware, varsFormation>>

NoError == "none"

(***************************************************************************)
(* IoClient._run_forever: backoff arithmetic.                              *)
(* Delays are exact rationals 0.5 * 1.7^a * 1.4^b below the cap; with at   *)
(* most seven factors before the cap is hit they are whole multiples of    *)
(* 10 ns, the unit used here.                                              *)
(***************************************************************************)
InitialBackoff == 50000000       \* backoff_s = 0.5
MaxBackoff == 500000000          \* max_backoff_s = 5.0
FailFactorTenths == 17           \* backoff_s * 1.7
DropFactorTenths == 14           \* backoff_s * 1.4

Min(a, b) == IF a <= b THEN a ELSE b

Max(a, b) == IF a >= b THEN a ELSE b

\* floor(v * f / 10), computed without leaving 32 bits
MulTenths(v, f) == (v \div 10) * f + ((v % 10) * f) \div 10

\* a cap applied with max() in place of min()
BackoffAfterFailureMaxTypo(b) == Max(MaxBackoff, MulTenths(b, FailFactorTenths))

\* line 132: backoff_s = min(max_backoff_s, backoff_s * 1.7)
BackoffAfterFailure(b) == Min(MaxBackoff, MulTenths(b, FailFactorTenths))

\* line 137: backoff_s = min(max_backoff_s, backoff_s * 1.4)
BackoffAfterDrop(b) == Min(MaxBackoff, MulTenths(b, DropFactorTenths))

\* a loop that gives up once the backoff has reached its cap
LoopContinuesUntilCap(flag, b) == ~flag /\ b < MaxBackoff

\* a loop that never looks at the stop flag
LoopIgnoresStopFlag(flag, b) == TRUE

\* line 121: while not self._stop_flag.is_set()
LoopContinues(flag, b) == ~flag

(***************************************************************************)
(* IoClient: initial state (after __init__, before start()).               *)
(***************************************************************************)
NoEmit == [event |-> "none", hasData |-> FALSE, attempted |-> FALSE,
           failed |-> FALSE, raised |-> FALSE]

MaxEmits == 2

InitReconnect ==
    /\ pc = "none"
    /\ backoff_s = InitialBackoff
    /\ lastDelay = 0
    /\ stop_flag = FALSE
    /\ sio_connected = FALSE
    /\ status_connected = FALSE
    /\ last_error = NoError
    /\ stopPc = "idle"
    /\ stopCaller = "nobody"
    /\ emitCalls = 0
    /\ sendAttempts = 0
    /\ lastEmit = NoEmit

ThreadAlive == pc \notin {"none", "done"}

(***************************************************************************)
(* IoClient.start: a no-op while the thread is alive; otherwise clears the *)
(* stop flag and starts a fresh _run_forever (backoff_s = 0.5).            *)
(***************************************************************************)
Start ==
    /\ ~ThreadAlive
    /\ stopPc = "idle"
    /\ stop_flag' = FALSE
    /\ pc' = "top"
    /\ backoff_s' = InitialBackoff
    /\ lastDelay' = 0
    /\ UNCHANGED <<outsideReconnect,
                   sio_connected, status_connected, last_error, stopPc, stopCaller,
                   emitCalls, sendAttempts, lastEmit>>

(***************************************************************************)
(* IoClient._run_forever.  A connect attempt is counted from the read of   *)
(* the stop flag in the while condition that lets it through.              *)
(***************************************************************************)
LoopTop ==
    /\ pc = "top"
    /\ pc' = IF LoopContinues(stop_flag, backoff_s) THEN "connecting" ELSE "done"
    /\ UNCHANGED <<outsideReconnect,
                   backoff_s, lastDelay, stop_flag, sio_connected, status_connected,
                   last_error, stopPc, stopCaller, emitCalls, sendAttempts, lastEmit>>

\* self._sio.connect(url, wait=True, wait_timeout=2.0) returns
ConnectOk ==
    /\ pc = "connecting"
    /\ sio_connected' = TRUE
    /\ pc' = "connected"
    /\ UNCHANGED <<outsideReconnect,
                   backoff_s, lastDelay, stop_flag, status_connected, last_error,
                   stopPc, stopCaller, emitCalls, sendAttempts, lastEmit>>

\* self._sio.connect raises (refused, timeout): except branch, lines 129-131
ConnectFail ==
    /\ pc = "connecting"
    /\ last_error' = "connect_error"
    /\ pc' = "sleep_fail"
    /\ UNCHANGED <<outsideReconnect,
                   backoff_s, lastDelay, stop_flag, sio_connected, status_connected,
                   stopPc, stopCaller, emitCalls, sendAttempts, lastEmit>>

\* lines 125-128: the idle loop ends on the stop flag or on a lost connection
IdleExit ==
    /\ pc = "connected"
    /\ stop_flag \/ ~sio_connected
    /\ pc' = IF stop_flag THEN "done" ELSE "sleep_drop"
    /\ UNCHANGED <<outsideReconnect,
                   backoff_s, lastDelay, stop_flag, sio_connected, status_connected,
                   last_error, stopPc, stopCaller, emitCalls, sendAttempts, lastEmit>>

\* lines 131-133: time.sleep(backoff_s) returns; backoff grows; continue
SleepFailDone ==
    /\ pc = "sleep_fail"
    /\ lastDelay' = backoff_s
    /\ backoff_s' = BackoffAfterFailure(backoff_s)
    /\ pc' = "top"
    /\ UNCHANGED <<outsideReconnect,
                   stop_flag, sio_connected, status_connected, last_error,
                   stopPc, stopCaller, emitCalls, sendAttempts, lastEmit>>

\* lines 136-137: time.sleep(backoff_s) returns; backoff grows
SleepDropDone ==
    /\ pc = "sleep_drop"
    /\ lastDelay' = backoff_s
    /\ backoff_s' = BackoffAfterDrop(backoff_s)
    /\ pc' = "top"
    /\ UNCHANGED <<outsideReconnect,
                   stop_flag, sio_connected, status_connected, last_error,
                   stopPc, stopCaller, emitCalls, sendAttempts, lastEmit>>

LoopStep == LoopTop \/ ConnectOk \/ ConnectFail \/ IdleExit \/ SleepFailDone \/ SleepDropDone

\* the backend goes away, or the network drops the connection
Drop ==
    /\ sio_connected
    /\ sio_connected' = FALSE
    /\ UNCHANGED <<outsideReconnect,
                   pc, backoff_s, lastDelay, stop_flag, status_connected, last_error,
                   stopPc, stopCaller, emitCalls, sendAttempts, lastEmit>>

(***************************************************************************)
(* The owner's connect / disconnect handlers (HardwareService._on_connect, *)
(* _on_disconnect) write status.connected from the dispatch thread, some   *)
(* time after the transport changed state.  The dispatch thread delivers   *)
(* nothing while it is itself inside stop().                               *)
(***************************************************************************)
DispatchFree == ~(stopPc # "idle" /\ stopCaller = "handler")

HwOnConnect ==
    /\ DispatchFree
    /\ sio_connected
    /\ ~status_connected
    /\ status_connected' = TRUE
    /\ UNCHANGED <<outsideReconnect,
                   pc, backoff_s, lastDelay, stop_flag, sio_connected, last_error,
                   stopPc, stopCaller, emitCalls, sendAttempts, lastEmit>>

HwOnDisconnect ==
    /\ DispatchFree
    /\ ~sio_connected
    /\ status_connected
    /\ status_connected' = FALSE
    /\ UNCHANGED <<outsideReconnect,
                   pc, backoff_s, lastDelay, stop_flag, sio_connected, last_error,
                   stopPc, stopCaller, emitCalls, sendAttempts, lastEmit>>

(***************************************************************************)
(* IoClient.stop (HardwareService.disconnect calls it), one step per       *)
(* statement, run by the owner thread or from within an event handler.     *)
(***************************************************************************)
\* line 147: self._stop_flag.set()
StopSetFlag ==
    /\ stopPc = "idle"
    /\ \E c \in {"owner", "handler"} : stopCaller' = c
    /\ stop_flag' = TRUE
    /\ stopPc' = "flagged"
    /\ UNCHANGED <<outsideReconnect,
                   pc, backoff_s, lastDelay, sio_connected, status_connected,
                   last_error, emitCalls, sendAttempts, lastEmit>>

\* lines 148-153: disconnect the transport if it reads connected; then join
\* only a live thread
StopDisconnect ==
    /\ stopPc = "flagged"
    /\ sio_connected' = FALSE
    /\ stopPc' = IF ThreadAlive THEN "joining" ELSE "idle"
    /\ stopCaller' = IF ThreadAlive THEN stopCaller ELSE "nobody"
    /\ UNCHANGED <<outsideReconnect,
                   pc, backoff_s, lastDelay, stop_flag, status_connected,
                   last_error, emitCalls, sendAttempts, lastEmit>>

\* line 154: self._thread.join(timeout=1.0) returns when the thread has ended
\* or when the timeout has passed, whichever comes first
JoinReturns(alive) == TRUE

StopJoin ==
    /\ stopPc = "joining"
    /\ JoinReturns(ThreadAlive)
    /\ stopPc' = "idle"
    /\ stopCaller' = "nobody"
    /\ UNCHANGED <<outsideReconnect,
                   pc, backoff_s, lastDelay, stop_flag, sio_connected, status_connected,
                   last_error, emitCalls, sendAttempts, lastEmit>>

StopStep == StopDisconnect \/ StopJoin

(***************************************************************************)
(* IoClient.emit.  self._sio.emit may raise (typically while the transport *)
(* is not connected); the except branch records str(e) and returns.        *)
(***************************************************************************)
EmitEvents == {"createTemporaryGroup", "getDeviceTypes"}

\* an emit that first checks the connected flag
EmitOnlyWhenConnected(connected) == connected

\* lines 158-161, 174-177: no check of self._sio.connected before the send
EmitAttemptsSend(connected) == TRUE

Emit(ev, hasData, sendRaises) ==
    /\ emitCalls < MaxEmits
    /\ emitCalls' = emitCalls + 1
    /\ LET attempt == EmitAttemptsSend(sio_connected)
           failed == attempt /\ sendRaises
       IN /\ sendAttempts' = IF attempt THEN sendAttempts + 1 ELSE sendAttempts
          /\ last_error' = IF failed THEN "emit_error" ELSE last_error
          /\ lastEmit' = [event |-> ev, hasData |-> hasData, attempted |-> attempt,
                          failed |-> failed, raised |-> FALSE]
    /\ UNCHANGED <<outsideReconnect,
                   pc, backoff_s, lastDelay, stop_flag, sio_connected, status_connected,
                   stopPc, stopCaller>>

EmitCall == \E ev \in EmitEvents, hasData \in BOOLEAN, sendRaises \in BOOLEAN :
                Emit(ev, hasData, sendRaises)

\* the loop, the transport and stop()
NextLoop ==
    \/ Start
    \/ LoopTop
    \/ ConnectOk
    \/ ConnectFail
    \/ IdleExit
    \/ SleepFailDone
    \/ SleepDropDone
    \/ Drop
    \/ HwOnConnect
    \/ HwOnDisconnect
    \/ StopSetFlag
    \/ StopDisconnect
    \/ StopJoin

NextReconnect == NextLoop \/ EmitCall

(***************************************************************************)
(* Claims about the reconnect loop, stop() and emit().                     *)
(***************************************************************************)
Sleeping == pc \in {"sleep_fail", "sleep_drop"}

\* C1 (as claimed): the delay slept after a successful connection dropped
\* is the initial 0.5 s, whatever happened before that connection.
C1_BackoffResetsAfterSuccess ==
    pc = "sleep_drop" => backoff_s = InitialBackoff

\* C2: every delay the loop sleeps is at least the delay it slept before, the
\* first one is 0.5 s, and none exceeds the 5.0 s cap.
C2_BackoffMonotoneCapped ==
    Sleeping =>
        /\ backoff_s >= lastDelay
        /\ backoff_s <= MaxBackoff
        /\ lastDelay = 0 => backoff_s = InitialBackoff

C2_Witness ==
    /\ pc = "sleep_fail"
    /\ backoff_s = MaxBackoff
    /\ lastDelay > InitialBackoff
    /\ lastDelay < MaxBackoff

\* C3: while stop() has not been called, every failed attempt and every
\* lost connection is followed by another connect attempt, however many came
\* before; the thread ends only with the stop flag set.
C3_RetriedForever ==
    /\ [](Sleeping => <>(pc = "connecting" \/ stop_flag))
    /\ [](pc = "done" => stop_flag)

C3_Witness ==
    /\ pc = "connecting"
    /\ lastDelay = MaxBackoff
    /\ ~stop_flag

\* C4: once stop() has set the flag no connect attempt begins, the thread
\* ends, and the call of stop() returns, whoever made it.
C4_StopHaltsLoop ==
    /\ [][stop_flag => (pc' = "connecting" => pc = "connecting")]_vars
    /\ (stop_flag ~> ~ThreadAlive)
    /\ (stopPc # "idle" ~> stopPc = "idle")

C4_Witness ==
    /\ stopPc = "joining"
    /\ stopCaller = "handler"
    /\ pc = "done"
    /\ lastDelay > 0

\* C5: every call of emit makes the send, whatever the connected flags say;
\* a send that fails leaves its error in last_error, and emit returns.
C5_EmitAlwaysSendsNeverRaises ==
    [][emitCalls' = emitCalls + 1 =>
          /\ sendAttempts' = sendAttempts + 1
          /\ lastEmit'.attempted
          /\ ~lastEmit'.raised
          /\ lastEmit'.failed => last_error' = "emit_error"]_vars

C5_Witness ==
    /\ lastEmit.attempted
    /\ lastEmit.failed
    /\ last_error = "emit_error"
    /\ ~sio_connected
    /\ ~status_connected

(***************************************************************************)
(* JSON values, as the decoders hand them to the code:                     *)
(*   [t |-> "obj", e |-> <<[k |-> key, v |-> value], ...>>]  (in order)    *)
(*   [t |-> "arr", e |-> <<value, ...>>]                                   *)
(*   [t |-> "int", n |-> integer]                                          *)
(*   [t |-> "str", s |-> <<character, ...>>]                               *)
(*   [t |-> "nil"]                                                         *)
(* Strings are sequences of one-character strings.                         *)
(***************************************************************************)
JInt(n) == [t |-> "int", n |-> n]

JStr(s) == [t |-> "str", s |-> s]

JArr(items) == [t |-> "arr", e |-> items]

JObj(entries) == [t |-> "obj", e |-> entries]

JNil == [t |-> "nil"]

JBool(b) == [t |-> "bool", b |-> b]

KV(k, v) == [k |-> k, v |-> v]

RECURSIVE Concat(_)
\* the concatenation of a sequence of sequences
Concat(ss) == IF ss = <<>> THEN <<>> ELSE Head(ss) \o Concat(Tail(ss))

(***************************************************************************)
(* msgpack, the subset the modelled frames use: positive fixint, fixmap,   *)
(* fixarray, fixstr, nil; 0xc1 is the format's never-used byte.            *)
(***************************************************************************)
Ascii == ("d" :> 100) @@ ("i" :> 105) @@ ("1" :> 49) @@ ("2" :> 50)

AsciiChars == DOMAIN Ascii

CharOf(b) == CHOOSE c \in AsciiChars : Ascii[c] = b

IsCharByte(b) == \E c \in AsciiChars : Ascii[c] = b

PackStr(s) == <<160 + Len(s)>> \o [i \in 1..Len(s) |-> Ascii[s[i]]]

RECURSIVE Pack(_)
\* msgpack.packb(v), the server's side
Pack(v) ==
    CASE v.t = "int" -> <<v.n>>
      [] v.t = "nil" -> <<192>>
      [] v.t = "str" -> PackStr(v.s)
      [] v.t = "arr" -> <<144 + Len(v.e)>> \o Concat([i \in 1..Len(v.e) |-> Pack(v.e[i])])
      [] v.t = "obj" -> <<128 + Len(v.e)>> \o
                        Concat([i \in 1..Len(v.e) |-> PackStr(v.e[i].k) \o Pack(v.e[i].v)])

Failed == [ok |-> FALSE]

Parsed(v, rest) == [ok |-> TRUE, v |-> v, rest |-> rest]

RECURSIVE ParseValue(_)
RECURSIVE ParseItems(_, _)
RECURSIVE ParseEntries(_, _)

\* one value off the front of the bytes b
ParseValue(b) ==
    IF b = <<>> THEN Failed
    ELSE LET h == Head(b)
             r == Tail(b)
         IN IF h <= 127 THEN Parsed(JInt(h), r)
            ELSE IF h <= 143 THEN
                LET es == ParseEntries(r, h - 128)
                IN IF es.ok THEN Parsed(JObj(es.v), es.rest) ELSE Failed
            ELSE IF h <= 159 THEN
                LET xs == ParseItems(r, h - 144)
                IN IF xs.ok THEN Parsed(JArr(xs.v), xs.rest) ELSE Failed
            ELSE IF h <= 191 THEN
                LET n == h - 160
                IN IF Len(r) >= n /\ \A i \in 1..n : IsCharByte(r[i])
                   THEN Parsed(JStr([i \in 1..n |-> CharOf(r[i])]), SubSeq(r, n + 1, Len(r)))
                   ELSE Failed
            ELSE IF h = 192 THEN Parsed(JNil, r)
            ELSE Failed

\* n values
ParseItems(b, n) ==
    IF n = 0 THEN Parsed(<<>>, b)
    ELSE LET x == ParseValue(b)
         IN IF ~x.ok THEN Failed
            ELSE LET xs == ParseItems(x.rest, n - 1)
                 IN IF xs.ok THEN Parsed(<<x.v>> \o xs.v, xs.rest) ELSE Failed

\* n key/value pairs; a key that is not a string is refused (strict_map_key)
ParseEntries(b, n) ==
    IF n = 0 THEN Parsed(<<>>, b)
    ELSE LET k == ParseValue(b)
         IN IF ~k.ok \/ k.v.t # "str" THEN Failed
            ELSE LET v == ParseValue(k.rest)
                 IN IF ~v.ok THEN Failed
                    ELSE LET es == ParseEntries(v.rest, n - 1)
                         IN IF es.ok THEN Parsed(<<KV(k.v.s, v.v)>> \o es.v, es.rest)
                            ELSE Failed

\* msgpack.unpackb(bytes, raw=False): one value and nothing after it
Unpack(b) ==
    LET x == ParseValue(b)
    IN IF x.ok /\ x.rest = <<>> THEN [ok |-> TRUE, v |-> x.v] ELSE Failed

(***************************************************************************)
(* IoClient: inbound dispatch.  The transport keeps one handler per event  *)
(* name; __init__ registers _on_json_data and _on_simple_json_data, on()   *)
(* and once() register the owner's handlers.                               *)
(***************************************************************************)
KeyId == <<"i", "d">>

DevD1 == JObj(<<KV(KeyId, JStr(<<"d", "1">>))>>)

DevD2 == JObj(<<KV(KeyId, JStr(<<"d", "2">>))>>)

\* message contents the backend sends: device objects and lists of them
Msgs ==
    { DevD1,
      JObj(<<KV(KeyId, JStr(<<"d", "1">>)), KV(<<"d">>, JInt(2))>>),
      JObj(<<>>),
      JObj(<<KV(<<"d">>, JArr(<<DevD1>>))>>),
      JArr(<<DevD1>>),
      JArr(<<DevD1, DevD2>>) }

ProperPrefixes(f) == { SubSeq(f, 1, n) : n \in 0..(Len(f) - 1) }

\* frames that are no msgpack value: a packed object or list cut short or
\* followed by a stray byte, and the never-used byte
BadFrames ==
    UNION { ProperPrefixes(Pack(m)) \cup { Pack(m) \o <<1>> } :
                m \in {DevD1, JArr(<<DevD1>>)} }
        \cup { <<193>> }

Frames == { Pack(m) : m \in Msgs } \cup BadFrames

Bytes(b) == [enc |-> "bytes", b |-> b]

Decoded(v) == [enc |-> "decoded", v |-> v]

SimplePayloads == { Bytes(f) : f \in Frames } \cup { Decoded(m) : m \in Msgs }

UserEvents == {"connect", "getDeviceTypesStatus"}

NoHandler == [kind |-> "none", called |-> FALSE]

NoCall == [called |-> FALSE]

CallOf(arg) == [called |-> TRUE, arg |-> arg]

NoInbound == [event |-> "none"]

InitDispatch ==
    /\ on_json = FALSE
    /\ handlers = [ev \in UserEvents |-> NoHandler]
    /\ lastIn = NoInbound
    /\ lastCall = NoCall
    /\ escaped = FALSE

\* set_json_callback
SetJsonCallback ==
    /\ ~on_json
    /\ on_json' = TRUE
    /\ UNCHANGED <<outsideDispatch, last_error, handlers, lastIn, lastCall, escaped>>

\* on(event, handler): self._sio.on(event, handler), the handler itself
On(ev) ==
    /\ handlers' = [handlers EXCEPT ![ev] = [kind |-> "on", called |-> FALSE]]
    /\ UNCHANGED <<outsideDispatch, last_error, on_json, lastIn, lastCall, escaped>>

\* once(event, handler): self._sio.on(event, _wrapper)
Once(ev) ==
    /\ handlers' = [handlers EXCEPT ![ev] = [kind |-> "once", called |-> FALSE]]
    /\ UNCHANGED <<outsideDispatch, last_error, on_json, lastIn, lastCall, escaped>>

\* lines 190-192: what leaves a handler registered through on() when it
\* raises; nothing of IoClient stands between it and the transport
OnHandlerEscapes(raises) == raises

\* the transport invokes the handler registered for ev; the handler may raise
DeliverUser(ev, raises) ==
    LET h == handlers[ev]
    IN /\ h.kind # "none"
       /\ lastIn' = [event |-> ev]
       /\ CASE h.kind = "on" ->
                 /\ lastCall' = CallOf(JNil)
                 /\ escaped' = (escaped \/ OnHandlerEscapes(raises))
                 /\ UNCHANGED handlers
            [] h.kind = "once" ->
                 \* lines 206-213: _wrapper
                 /\ lastCall' = IF h.called THEN NoCall ELSE CallOf(JNil)
                 /\ handlers' = [handlers EXCEPT ![ev].called = TRUE]
                 /\ UNCHANGED escaped
       /\ UNCHANGED <<outsideDispatch, last_error, on_json>>

\* lines 63-66: _on_json_data hands the message to the callback as it came
JsonDataForward(cbSet, data) == IF cbSet THEN CallOf(data) ELSE NoCall

\* _on_json_data; an exception of the callback is swallowed (lines 67-69)
DeliverJsonData(m, raises) ==
    /\ lastIn' = [event |-> "jsonData", payload |-> Decoded(m), cbSet |-> on_json]
    /\ lastCall' = JsonDataForward(on_json, m)
    /\ UNCHANGED <<outsideDispatch, last_error, on_json, handlers, escaped>>

\* lines 76-100: _on_simple_json_data.  [call, error]: the callback
\* invocation made and what is written to status.last_error (NoError: nothing)
SimpleForward(cbSet, payload, raises) ==
    IF ~cbSet THEN [call |-> NoCall, error |-> NoError]
    ELSE LET dec == IF payload.enc = "bytes" THEN Unpack(payload.b)
                    ELSE [ok |-> TRUE, v |-> payload.v]
         IN IF ~dec.ok THEN [call |-> NoCall, error |-> "decode_error"]
            ELSE IF dec.v.t = "obj"
                 THEN [call |-> CallOf(dec.v),
                       error |-> IF raises THEN "callback_error" ELSE NoError]
                 ELSE [call |-> NoCall, error |-> NoError]

DeliverSimpleJsonData(payload, raises) ==
    LET r == SimpleForward(on_json, payload, raises)
    IN /\ lastIn' = [event |-> "simpleJsonData", payload |-> payload, cbSet |-> on_json]
       /\ lastCall' = r.call
       /\ last_error' = IF r.error = NoError THEN last_error ELSE r.error
       /\ UNCHANGED <<outsideDispatch, on_json, handlers, escaped>>

OnCall == \E ev \in UserEvents : On(ev)

OnceCall == \E ev \in UserEvents : Once(ev)

UserEvent == \E ev \in UserEvents, raises \in BOOLEAN : DeliverUser(ev, raises)

JsonDataEvent == \E m \in Msgs, raises \in BOOLEAN : DeliverJsonData(m, raises)

SimpleJsonDataEvent ==
    \E p \in SimplePayloads, raises \in BOOLEAN : DeliverSimpleJsonData(p, raises)

NextDispatch ==
    \/ SetJsonCallback
    \/ OnCall
    \/ OnceCall
    \/ UserEvent
    \/ JsonDataEvent
    \/ SimpleJsonDataEvent

(***************************************************************************)
(* Claims about inbound dispatch.                                          *)
(***************************************************************************)
\* C6 (as claimed): no exception of a handler registered through on(),
\* once() or set_json_callback() gets past IoClient into the transport's
\* dispatcher, where it could hold up the delivery of events.
C6_HandlerExceptionsContained == ~escaped

\* C7 (as claimed): a message packed on simpleJsonData reaches the json
\* callback exactly as the same message on jsonData does; bytes that are no
\* message reach no callback and leave an error in last_error.
C7_SimpleJsonDataAsJsonData ==
    (lastIn.event = "simpleJsonData" /\ lastIn.payload.enc = "bytes") =>
        /\ \A m \in Msgs :
              lastIn.payload.b = Pack(m) => lastCall = JsonDataForward(lastIn.cbSet, m)
        /\ (lastIn.cbSet /\ ~Unpack(lastIn.payload.b).ok) =>
              (~lastCall.called /\ last_error = "decode_error")

(***************************************************************************)
(* HardwareService._discover_socket_port.                                  *)
(***************************************************************************)
CandidatePaths ==
    <<"config", "dynamo/config", "api/config", "flux/config", "v1/config",
      "backend/config">>

MinPort == 1000

MaxPort == 65535

\* str.lower(), on the letters the modelled keys use
\* the letters str.lower changes
UpperToLower ==
    ("A" :> "a") @@ ("B" :> "b") @@ ("C" :> "c") @@ ("D" :> "d") @@ ("E" :> "e")
        @@ ("F" :> "f") @@ ("G" :> "g") @@ ("H" :> "h") @@ ("I" :> "i")
        @@ ("J" :> "j") @@ ("K" :> "k") @@ ("L" :> "l") @@ ("M" :> "m")
        @@ ("N" :> "n") @@ ("O" :> "o") @@ ("P" :> "p") @@ ("Q" :> "q")
        @@ ("R" :> "r") @@ ("S" :> "s") @@ ("T" :> "t") @@ ("U" :> "u")
        @@ ("V" :> "v") @@ ("W" :> "w") @@ ("X" :> "x") @@ ("Y" :> "y")
        @@ ("Z" :> "z")

LowerChar(c) == IF c \in DOMAIN UpperToLower THEN UpperToLower[c] ELSE c

Lower(s) == [i \in 1..Len(s) |-> LowerChar(s[i])]

\* sub in s
Contains(s, sub) ==
    \E i \in 1..(Len(s) - Len(sub) + 1) : SubSeq(s, i, i + Len(sub) - 1) = sub

StrSocket == <<"s", "o", "c", "k", "e", "t">>

StrPort == <<"p", "o", "r", "t">>

DigitValue ==
    ("0" :> 0) @@ ("1" :> 1) @@ ("2" :> 2) @@ ("3" :> 3) @@ ("4" :> 4)
        @@ ("5" :> 5) @@ ("6" :> 6) @@ ("7" :> 7) @@ ("8" :> 8) @@ ("9" :> 9)

RECURSIVE DigitsValue(_, _)
\* the number the digits s continue, acc being the value read so far
DigitsValue(s, acc) ==
    IF s = <<>> THEN acc ELSE DigitsValue(Tail(s), 10 * acc + DigitValue[Head(s)])

NotAnInt == [ok |-> FALSE]

\* int(v): an integer is itself, a string of digits is parsed, anything else
\* raises
IntOf(v) ==
    CASE v.t = "int" -> [ok |-> TRUE, n |-> v.n]
      [] v.t = "str" ->
          IF v.s # <<>> /\ \A i \in 1..Len(v.s) : v.s[i] \in DOMAIN DigitValue
          THEN [ok |-> TRUE, n |-> DigitsValue(v.s, 0)]
          ELSE NotAnInt
      [] OTHER -> NotAnInt

\* a range check that leaves out both ends
InPortRangeExclusive(n) == MinPort < n /\ n < MaxPort

\* line 1123: 1000 <= port_val <= 65535
InPortRange(n) == MinPort <= n /\ n <= MaxPort

\* lines 1119-1120, on the lower-cased key
KeyNamesSocketPort(key) ==
    \/ Contains(key, StrSocket \o StrPort)
    \/ Contains(key, StrSocket) /\ Contains(key, StrPort)

\* the keys of the modelled documents
KeySocketPort == <<"S", "o", "c", "k", "e", "t", "P", "o", "r", "t">>

KeyPortSocket == <<"p", "o", "r", "t", "_", "s", "o", "c", "k", "e", "t">>

KeyPort == <<"p", "o", "r", "t">>

DocKeys == {KeySocketPort, KeyPortSocket, KeyPort}

\* lines 1119-1120 for each modelled key: key = str(k).lower(), then the test
NamesSocketPort == [k \in DocKeys |-> KeyNamesSocketPort(Lower(k))]

NoPort == [found |-> FALSE]

Port(n) == [found |-> TRUE, port |-> n]

RECURSIVE FindSocketPort(_)
RECURSIVE FindInEntries(_, _)
RECURSIVE FindInItems(_, _)

\* lines 1118-1129: the loop over obj.items(), from entry i on
FindInEntries(es, i) ==
    IF i > Len(es) THEN NoPort
    ELSE LET conv == IntOf(es[i].v)
         IN IF NamesSocketPort[es[i].k] /\ conv.ok /\ InPortRange(conv.n)
            THEN Port(conv.n)
            ELSE LET found == FindSocketPort(es[i].v)
                 IN IF found.found THEN found ELSE FindInEntries(es, i + 1)

\* lines 1130-1134: the loop over a list, from item i on
FindInItems(xs, i) ==
    IF i > Len(xs) THEN NoPort
    ELSE LET found == FindSocketPort(xs[i])
         IN IF found.found THEN found ELSE FindInItems(xs, i + 1)

\* lines 1115-1137: _find_socket_port
FindSocketPort(obj) ==
    CASE obj.t = "obj" -> FindInEntries(obj.e, 1)
      [] obj.t = "arr" -> FindInItems(obj.e, 1)
      [] OTHER -> NoPort

(***************************************************************************)
(* The responses a candidate path can give.                                *)
(***************************************************************************)
DocLeaves ==
    { JInt(999), JInt(1000), JInt(65535), JInt(65536), JStr(<<"3", "0", "0", "0">>) }

MaxNodes == 3

RECURSIVE DocValues(_)
RECURSIVE ValueSeqs(_)
RECURSIVE EntrySeqs(_)

\* the JSON values of exactly n nodes (a leaf, an object and an array count one
\* each, besides what they hold)
DocValues(n) ==
    IF n = 1 THEN DocLeaves
    ELSE { JObj(es) : es \in EntrySeqs(n - 1) } \cup { JArr(xs) : xs \in ValueSeqs(n - 1) }

\* the sequences of values of n nodes in all
ValueSeqs(n) ==
    IF n = 0 THEN {<<>>}
    ELSE UNION { { <<v>> \o rest : v \in DocValues(k), rest \in ValueSeqs(n - k) } :
                    k \in 1..n }

\* the sequences of key/value entries whose values have n nodes in all
EntrySeqs(n) ==
    IF n = 0 THEN {<<>>}
    ELSE UNION { { <<KV(key, v)>> \o rest :
                      key \in DocKeys, v \in DocValues(k), rest \in EntrySeqs(n - k) } :
                    k \in 1..n }

Obj1(k, v) == JObj(<<KV(k, v)>>)

\* deeper documents: a nested key before and after a sibling, a key naming an
\* object, a list of objects, empty containers
SampleDocs ==
    { JObj(<<KV(KeyPort, Obj1(KeySocketPort, JInt(1000))), KV(KeySocketPort, JInt(65535))>>),
      JObj(<<KV(KeySocketPort, JInt(999)), KV(KeyPort, Obj1(KeyPortSocket, JInt(65535)))>>),
      Obj1(KeySocketPort, Obj1(KeyPort, Obj1(KeySocketPort, JInt(1000)))),
      JArr(<<Obj1(KeyPort, JInt(1000)), Obj1(KeyPort, JArr(<<Obj1(KeyPortSocket, JInt(65535))>>))>>),
      JObj(<<>>),
      JArr(<<>>) }

Docs == UNION { DocValues(n) : n \in 1..MaxNodes } \cup SampleDocs

FailureKinds == {"neterror", "timeout", "non200", "badjson"}

Responses == { [kind |-> k] : k \in FailureKinds } \cup { [kind |-> "json", doc |-> d] : d \in Docs }

InitDiscovery ==
    /\ disc_pc = "idle"
    /\ disc_next = 1
    /\ disc_result = NoPort
    /\ disc_doc = JNil
    /\ disc_probed = <<>>
    /\ disc_kinds = {}
    /\ disc_missed = FALSE

(***************************************************************************)
(* What the claims say a document yields: its key/value pairs in document  *)
(* order, and the first of them that qualifies.                            *)
(***************************************************************************)
RECURSIVE PairsInOrder(_)
PairsInOrder(v) ==
    CASE v.t = "obj" ->
            Concat([i \in 1..Len(v.e) |-> <<v.e[i]>> \o PairsInOrder(v.e[i].v)])
      [] v.t = "arr" -> Concat([i \in 1..Len(v.e) |-> PairsInOrder(v.e[i])])
      [] OTHER -> <<>>

\* the key contains "socket" and "port", whatever the case of its letters
QualifyingKeys ==
    { k \in DocKeys : Contains(Lower(k), StrSocket) /\ Contains(Lower(k), StrPort) }

Qualifies(kv) ==
    /\ kv.k \in QualifyingKeys
    /\ IntOf(kv.v).ok
    /\ IntOf(kv.v).n >= 1000
    /\ IntOf(kv.v).n <= 65535

FirstQualifying(doc) ==
    LET ps == PairsInOrder(doc)
        hits == { i \in 1..Len(ps) : Qualifies(ps[i]) }
    IN IF hits = {} THEN NoPort
       ELSE Port(IntOf(ps[CHOOSE i \in hits : \A j \in hits : i <= j].v).n)

(***************************************************************************)
(* The for loop over the candidates (lines 1140-1158).                     *)
(***************************************************************************)
DiscoverCall ==
    /\ disc_pc = "idle"
    /\ disc_pc' = "probing"
    /\ UNCHANGED <<outsideDiscovery, disc_next, disc_result, disc_doc, disc_probed,
                   disc_kinds, disc_missed>>

\* a discovery that gives up at the first request that raises
ProbingGoesOnUnlessRaised(kind) == kind \notin {"neterror", "timeout"}

\* lines 1144-1155: every failure of a candidate ends in `continue`
ProbingGoesOn(kind) == TRUE

\* requests.get for the next candidate returns resp, or raises
Probe(resp) ==
    /\ disc_probed' = Append(disc_probed, CandidatePaths[disc_next])
    /\ LET port == IF resp.kind = "json" THEN FindSocketPort(resp.doc) ELSE NoPort
           kind == IF resp.kind # "json" THEN resp.kind
                   ELSE IF FirstQualifying(resp.doc).found THEN "match" ELSE "nomatch"
       IN /\ disc_kinds' = disc_kinds \cup {kind}
          /\ IF port.found
             THEN /\ disc_pc' = "returned"
                  /\ disc_result' = port
                  /\ disc_doc' = resp.doc
                  /\ UNCHANGED <<disc_next, disc_missed>>
             ELSE /\ disc_missed' = (disc_missed \/ kind = "match")
                  /\ IF ProbingGoesOn(kind)
                     THEN /\ disc_next' = disc_next + 1
                          /\ UNCHANGED <<disc_pc, disc_result, disc_doc>>
                     ELSE /\ disc_pc' = "returned"
                          /\ disc_result' = NoPort
                          /\ UNCHANGED <<disc_next, disc_doc>>
    /\ UNCHANGED outsideDiscovery

ProbeCandidate ==
    /\ disc_pc = "probing"
    /\ disc_next <= Len(CandidatePaths)
    /\ \E resp \in Responses : Probe(resp)

\* line 1158: return None after the last candidate
DiscoverReturnsNone ==
    /\ disc_pc = "probing"
    /\ disc_next > Len(CandidatePaths)
    /\ disc_pc' = "returned"
    /\ disc_result' = NoPort
    /\ UNCHANGED <<outsideDiscovery, disc_next, disc_doc, disc_probed, disc_kinds,
                   disc_missed>>

NextDiscovery == DiscoverCall \/ ProbeCandidate \/ DiscoverReturnsNone

(***************************************************************************)
(* Claims about port discovery.                                            *)
(***************************************************************************)
\* C8: the paths are requested in the fixed order; no candidate that serves
\* a qualifying key is passed over; the port returned is the first
\* qualifying value, in document order, of the document that answered, and
\* lies in [1000, 65535].
C8_FirstPortInDocumentOrder ==
    /\ disc_probed = SubSeq(CandidatePaths, 1, Len(disc_probed))
    /\ ~disc_missed
    /\ (disc_pc = "returned" /\ disc_result.found) =>
          /\ disc_result = FirstQualifying(disc_doc)
          /\ disc_result.port >= 1000
          /\ disc_result.port <= 65535

C8_Witness ==
    /\ disc_pc = "returned"
    /\ disc_result = Port(65535)
    /\ Len(PairsInOrder(disc_doc)) >= 3
    /\ \E i \in 1..3 : ~Qualifies(PairsInOrder(disc_doc)[i])
    /\ disc_probed = SubSeq(CandidatePaths, 1, 3)
    /\ disc_kinds = {"nomatch", "non200", "match"}

\* C9: when no candidate serves a qualifying key, whatever each of them
\* does instead, all six are requested and the result is none.
C9_NoneWhenNothingMatches ==
    (disc_pc = "returned" /\ "match" \notin disc_kinds) =>
        /\ ~disc_result.found
        /\ disc_probed = CandidatePaths

C9_Witness ==
    /\ disc_pc = "returned"
    /\ ~disc_result.found
    /\ disc_kinds = FailureKinds \cup {"nomatch"}

(***************************************************************************)
(* HardwareService._on_json: the liveness tracker.  Time is counted in     *)
(* hundredths of a second.                                                 *)
(***************************************************************************)
ActiveDeviceDecay == 100       \* self._active_device_decay_s = 1.0

MaxTime == 153

\* the clock moves by 0.50 s or 0.51 s at a time
TickSteps == {50, 51}

KeyDeviceId == <<"d", "e", "v", "i", "c", "e", "I", "d">>

KeyDeviceUnderscoreId == <<"d", "e", "v", "i", "c", "e", "_", "i", "d">>

KeyDevices == <<"d", "e", "v", "i", "c", "e", "s">>

IdD1 == <<"d", "1">>

IdD2 == <<"d", "2">>

DeviceIds == {IdD1, IdD2}

HasKey(obj, key) == \E i \in 1..Len(obj.e) : obj.e[i].k = key

\* dict.get(key): the value of the key, None when it is absent
Get(obj, key) ==
    IF HasKey(obj, key)
    THEN obj.e[CHOOSE i \in 1..Len(obj.e) : obj.e[i].k = key].v
    ELSE JNil

\* the truth value Python gives a JSON value
Truthy(v) ==
    CASE v.t = "nil" -> FALSE
      [] v.t = "bool" -> v.b
      [] v.t = "int" -> v.n # 0
      [] v.t = "str" -> v.s # <<>>
      [] OTHER -> v.e # <<>>

\* a or b
OrElse(a, b) == IF Truthy(a) THEN a ELSE b

\* an extraction that reads the deviceId key alone
DeviceIdOnly(item) == Get(item, KeyDeviceId)

\* item.get("deviceId") or item.get("device_id") or item.get("id")
DeviceIdOf(item) ==
    OrElse(Get(item, KeyDeviceId), OrElse(Get(item, KeyDeviceUnderscoreId), Get(item, KeyId)))

\* the ids of a list of device objects; .get on anything but an object raises
IdsOfItems(items) ==
    IF \E i \in 1..Len(items) : items[i].t # "obj"
    THEN [ok |-> FALSE]
    ELSE [ok |-> TRUE,
          ids |-> { DeviceIdOf(items[i]).s :
                       i \in { j \in 1..Len(items) : Truthy(DeviceIdOf(items[j])) } }]

\* lines 252-275: current_ids, or the exception that ends the update
ExtractIds(data) ==
    CASE data.t = "arr" -> IdsOfItems(data.e)
      [] data.t = "obj" ->
          IF HasKey(data, KeyDeviceId) \/ HasKey(data, KeyDeviceUnderscoreId)
                \/ HasKey(data, KeyId)
          THEN [ok |-> TRUE,
                ids |-> IF Truthy(DeviceIdOf(data)) THEN {DeviceIdOf(data).s} ELSE {}]
          ELSE LET devs == Get(data, KeyDevices)
               IN CASE devs.t = "arr" -> IdsOfItems(devs.e)
                    [] devs.t = "obj" ->
                        [ok |-> TRUE, ids |-> { devs.e[i].k : i \in 1..Len(devs.e) }]
                    [] OTHER -> [ok |-> TRUE, ids |-> {}]
      [] OTHER -> [ok |-> TRUE, ids |-> {}]

Dev(key, id) == JObj(<<KV(key, JStr(id))>>)

\* telemetry payloads: one device, a list of devices, a container with a
\* list or a map of devices, payloads that carry no id, and a list holding
\* something that is no object
TelemetryPayloads ==
    { Dev(KeyDeviceId, IdD1),
      Dev(KeyDeviceUnderscoreId, IdD2),
      Dev(KeyId, IdD2),
      JArr(<<Dev(KeyDeviceId, IdD1), Dev(KeyId, IdD2)>>),
      JObj(<<KV(KeyDevices, JArr(<<Dev(KeyDeviceUnderscoreId, IdD1)>>))>>),
      JObj(<<KV(KeyDevices, JObj(<<KV(IdD1, JObj(<<>>)), KV(IdD2, JObj(<<>>))>>))>>),
      JObj(<<>>),
      Dev(KeyDeviceId, <<>>),
      JArr(<<Dev(KeyDeviceId, IdD1), JInt(1)>>) }

\* ExtractIds, tabulated over the payloads
ExtractedIds == [data \in TelemetryPayloads |-> ExtractIds(data)]

NoPacket == [processed |-> FALSE]

\* a Qt signal emission, signal.emit(arg)
Sig(name, arg) == [sig |-> name, arg |-> arg]

\* the arguments a call emitted with one signal, in order
EmittedWith(signals, name) ==
    LET RECURSIVE Args(_)
        Args(i) == IF i > Len(signals) THEN <<>>
                   ELSE IF signals[i].sig = name
                        THEN <<signals[i].arg>> \o Args(i + 1)
                        ELSE Args(i + 1)
    IN Args(1)

NoHwCall == [handler |-> "none"]

\* auto_connect was not called
NoThread == [pc |-> "none", left |-> 0]

\* the threads that call _post_to_qt
Posters == {1, 2}

\* the Qt thread is not inside _drain_qt_call_queue
NotDraining == [pc |-> "idle", fn |-> 0]

\* HardwareService.__init__: no client, nothing connected, nothing emitted
InitService ==
    /\ client = FALSE
    /\ connected_devices = {}
    /\ hw_call = NoHwCall
    /\ hw_signals = <<>>
    /\ hw_emits = <<>>
    /\ groups = <<>>
    /\ group_definitions = <<>>
    /\ groups_current = FALSE
    /\ requests = <<>>
    /\ status_handler = 0
    /\ timers = EmptyBag
    /\ replaced_sio = "none"
    /\ auto = NoThread
    /\ shutdown = FALSE
    /\ qt_call_queue = <<>>
    /\ qt_posting = [p \in Posters |-> 0]
    /\ qt_drains = 0
    /\ qt_drain = NotDraining
    /\ qt_posted = <<>>
    /\ qt_ran = <<>>

InitLiveness ==
    /\ now = 0
    /\ device_last_seen = <<>>
    /\ active_devices = {}
    /\ lastPacket = NoPacket
    /\ seen_at = <<>>

\* a tracker that notifies on every packet
ActiveSetChangedAlways(active_ids, previous) == TRUE

\* line 295: active_ids != self._active_devices
ActiveSetChanged(active_ids, previous) == active_ids # previous

\* an entry that stays active only strictly inside the window
StillActiveStrict(t, last_seen) == (t - last_seen) < ActiveDeviceDecay

\* line 285: (now - last_seen) <= self._active_device_decay_s
StillActive(t, last_seen) == (t - last_seen) <= ActiveDeviceDecay

\* a function with the ids in `ids` set to t
Stamp(f, ids, t) ==
    [d \in (DOMAIN f) \cup ids |-> IF d \in ids THEN t ELSE f[d]]

Restrict(f, keep) == [d \in keep |-> f[d]]

\* _on_json(data), called with the clock at `now`
OnJson(data) ==
    LET ex == ExtractedIds[data]
    IN IF ~ex.ok
       THEN \* lines 303-304: the exception ends the update
            /\ lastPacket' = [processed |-> TRUE, at |-> now, updated |-> FALSE,
                              notified |-> FALSE]
            /\ hw_signals' = <<Sig("data_received", data)>>
            /\ UNCHANGED <<device_last_seen, active_devices, seen_at>>
       ELSE LET stamped == Stamp(device_last_seen, ex.ids, now)
                active_ids == { d \in DOMAIN stamped : StillActive(now, stamped[d]) }
            IN /\ device_last_seen' = Restrict(stamped, active_ids)
               /\ active_devices' = active_ids
               /\ lastPacket' = [processed |-> TRUE, at |-> now, updated |-> TRUE,
                                 notified |-> ActiveSetChanged(active_ids, active_devices)]
               /\ seen_at' = Stamp(seen_at, ex.ids, now)
               \* line 247, then lines 295-297
               /\ hw_signals' =
                     <<Sig("data_received", data)>> \o
                     (IF ActiveSetChanged(active_ids, active_devices)
                      THEN <<Sig("active_devices_updated", active_ids)>>
                      ELSE <<>>)

TelemetryPacket ==
    /\ \E data \in TelemetryPayloads : OnJson(data)
    /\ hw_call' = [handler |-> "_on_json", prev_active |-> active_devices]
    /\ hw_emits' = <<>>
    /\ UNCHANGED <<outsideLiveness, varsDirectory, now, client, connected_devices>>

Tick ==
    /\ \E step \in TickSteps :
          /\ now + step <= MaxTime
          /\ now' = now + step
    /\ UNCHANGED <<outsideLiveness, varsService, varsDirectory,
                   device_last_seen, active_devices, lastPacket, seen_at>>

NextLiveness == TelemetryPacket \/ Tick

(***************************************************************************)
(* Claims about the liveness tracker.                                      *)
(***************************************************************************)
\* the time of the latest packet whose processing recomputed the active set
Reported == lastPacket.processed /\ lastPacket.updated

KeyIsConnected == <<"i", "s", "C", "o", "n", "n", "e", "c", "t", "e", "d">>

GidG1 == <<"G", "1">>

GidG2 == <<"G", "2">>

\* one group's entry of a connectionStatusUpdate payload (docstring, line 353)
GroupStatus(isOn, flags) ==
    JObj(<<KV(KeyIsConnected, JBool(isOn)), KV(KeyDevices, JObj(flags))>>)

\* connectionStatusUpdate payloads: a device on and one off, every device
\* off, no group, a group without a devices map, a null group, a payload
\* that is no object, and a group entry that is no object
StatusPayloads ==
    { JObj(<<KV(GidG1, GroupStatus(TRUE, <<KV(IdD1, JBool(TRUE)), KV(IdD2, JBool(FALSE))>>))>>),
      JObj(<<KV(GidG1, GroupStatus(FALSE, <<KV(IdD1, JBool(FALSE))>>)),
             KV(GidG2, GroupStatus(FALSE, <<KV(IdD2, JBool(FALSE))>>))>>),
      JObj(<<>>),
      JObj(<<KV(GidG1, JObj(<<KV(KeyIsConnected, JBool(FALSE))>>))>>),
      JObj(<<KV(GidG1, JNil)>>),
      JArr(<<>>),
      JObj(<<KV(GidG1, JInt(1))>>) }

\* g or {}
OrEmptyObj(v) == IF Truthy(v) THEN v ELSE JObj(<<>>)

\* lines 360-365 for one group entry: the ids switched on, or the exception
\* of .get on something that is no object
ConnectedInGroup(g) ==
    LET grp == OrEmptyObj(g)
    IN IF grp.t # "obj"
       THEN [ok |-> FALSE]
       ELSE LET devs == OrEmptyObj(Get(grp, KeyDevices))
            IN [ok |-> TRUE,
                ids |-> IF devs.t = "obj"
                        THEN { devs.e[i].k :
                                 i \in { j \in 1..Len(devs.e) : Truthy(devs.e[j].v) } }
                        ELSE {}]

\* lines 357-365: the set `connected`, or the exception that skips line 366
ConnectedOf(payload) ==
    IF payload.t # "obj"
    THEN [ok |-> TRUE, ids |-> {}]
    ELSE IF \E i \in 1..Len(payload.e) : ~ConnectedInGroup(payload.e[i].v).ok
         THEN [ok |-> FALSE]
         ELSE [ok |-> TRUE,
               ids |-> UNION { ConnectedInGroup(payload.e[i].v).ids : i \in 1..Len(payload.e) }]

\* ConnectedOf, tabulated over the payloads
ConnectedTable == [payload \in StatusPayloads |-> ConnectedOf(payload)]

\* lines 178-181, 228-231, 372-374: active set emptied, both lists notified
EmptyNotifications ==
    <<Sig("active_devices_updated", {}), Sig("device_list_updated", <<>>)>>

\* fetch_discovery, lines 311-323
FetchDiscoveryEmits ==
    <<"getDeviceSettings", "getDeviceTypes", "getGroupDefinitions",
      "getConnectedDevices", "getConnectedGroups", "getGroups">>

\* HardwareService.disconnect, lines 172-184, whoever calls it
DisconnectEffects(caller) ==
    /\ client' = FALSE
    /\ connected_devices' = {}
    /\ active_devices' = {}
    /\ hw_call' = [handler |-> "disconnect", prev_active |-> active_devices,
                   caller |-> caller]
    /\ hw_signals' = EmptyNotifications \o <<Sig("connection_status_changed", "Disconnected")>>
    /\ hw_emits' = <<>>
    /\ groups_current' = FALSE
    /\ UNCHANGED <<outsideLifecycle, varsFormation, groups, group_definitions,
                   status_connected, now, device_last_seen, lastPacket, seen_at>>

\* disconnect() called by the owner (MainController.shutdown, line 41 of
\* main_controller.py)
Disconnect ==
    /\ DisconnectEffects("owner")
    /\ shutdown' = TRUE
    /\ UNCHANGED <<replaced_sio, auto>>

\* HardwareService.connect, lines 107-170: disconnect(), then a new client
\* (status.connected False) with the handlers registered, then start();
\* what was registered with the client before is gone with it, and the
\* client before, if there was one, is stopped and replaced
ConnectEffects(caller) ==
    /\ client' = TRUE
    /\ status_connected' = FALSE
    /\ connected_devices' = {}
    /\ active_devices' = {}
    /\ hw_call' = [handler |-> "connect", prev_active |-> active_devices,
                   caller |-> caller]
    /\ hw_signals' = EmptyNotifications \o
                     <<Sig("connection_status_changed", "Disconnected"),
                       Sig("connection_status_changed", "Connecting")>>
    /\ hw_emits' = <<>>
    /\ status_handler' = 0
    /\ groups_current' = FALSE
    /\ replaced_sio' = IF client THEN "stopped" ELSE replaced_sio
    /\ UNCHANGED <<outsideLifecycle, groups, group_definitions, requests, timers,
                   now, device_last_seen, lastPacket, seen_at>>

\* connect() called by the owner
Connect ==
    /\ ConnectEffects("owner")
    /\ shutdown' = FALSE
    /\ UNCHANGED auto

\* HardwareService._on_connect, lines 186-214, called by the client `sender`
\* for its connect event; the handler does not look at who calls it
OnConnectBy(sender) ==
    /\ status_connected' = IF client THEN TRUE ELSE status_connected
    /\ hw_call' = [handler |-> "_on_connect", prev_active |-> active_devices,
                   sender |-> sender]
    /\ hw_signals' = <<Sig("connection_status_changed", "Connected")>>
    /\ hw_emits' = IF client
                   THEN <<"startDataReception", "getDynamoConfig">> \o FetchDiscoveryEmits
                   ELSE <<>>
    /\ UNCHANGED <<outsideLifecycle, varsFormation, varsDirectory, varsLiveness,
                   client, connected_devices, auto, shutdown>>

\* the connect event of the current client
OnConnect == OnConnectBy("current") /\ UNCHANGED replaced_sio

\* history: the creation requests that no outcome has resolved yet are marked
\* as having seen the connection drop
Dropped(reqs) ==
    [i \in DOMAIN reqs |->
        IF reqs[i].resolved.sig = "none" THEN [reqs[i] EXCEPT !.dropped = TRUE] ELSE reqs[i]]

\* HardwareService._on_disconnect, lines 216-244, called by the client
\* `sender` (it touches nothing of a pending creation: neither its handlers
\* nor its timers)
OnDisconnectBy(sender) ==
    /\ status_connected' = IF client THEN FALSE ELSE status_connected
    /\ connected_devices' = {}
    /\ active_devices' = {}
    /\ hw_call' = [handler |-> "_on_disconnect", prev_active |-> active_devices,
                   sender |-> sender]
    /\ hw_signals' = <<Sig("connection_status_changed", "Disconnected")>> \o EmptyNotifications
    /\ hw_emits' = <<>>
    /\ requests' = Dropped(requests)
    /\ groups_current' = FALSE
    /\ UNCHANGED <<outsideLifecycle, groups, group_definitions, client, status_handler,
                   timers, now, device_last_seen, lastPacket, seen_at, auto, shutdown>>

\* the disconnect event of the current client
OnDisconnect == OnDisconnectBy("current") /\ UNCHANGED replaced_sio

\* IoClient._run_forever and stop, io_client.py lines 121-128 and 146-154: a
\* client that was stopped during its connect attempt connects afterwards,
\* and its transport delivers the connect event to the handler that
\* connect() registered with it (line 138)
ReplacedConnects ==
    /\ replaced_sio = "stopped"
    /\ replaced_sio' = "connected"
    /\ OnConnectBy("replaced")

\* the backend or the network drops that transport: its disconnect event goes
\* to the handler registered with it (line 139)
ReplacedDrops ==
    /\ replaced_sio = "connected"
    /\ replaced_sio' = "closed"
    /\ OnDisconnectBy("replaced")

\* a handler that empties the active set while something is connected
ClearsWhileConnected(connected) == connected # {}

\* line 370: if not self._connected_devices
ClearsActive(connected) == connected = {}

\* HardwareService._on_connection_status_update, lines 350-382
OnConnectionStatusUpdate(payload) ==
    LET found == ConnectedTable[payload]
        connected == IF found.ok THEN found.ids ELSE connected_devices
    IN /\ connected_devices' = connected
       /\ active_devices' = IF ClearsActive(connected) THEN {} ELSE active_devices
       /\ hw_call' = [handler |-> "_on_connection_status_update",
                      prev_active |-> active_devices, payload |-> payload]
       /\ hw_signals' = IF ClearsActive(connected) THEN EmptyNotifications ELSE <<>>
       /\ hw_emits' = IF client THEN <<"getConnectedDevices">> ELSE <<>>
       /\ UNCHANGED <<outsideService, varsDirectory, status_connected, client,
                      now, device_last_seen, lastPacket, seen_at>>

ConnectionStatusUpdate == \E payload \in StatusPayloads : OnConnectionStatusUpdate(payload)

NextPresence ==
    \/ TelemetryPacket
    \/ Tick
    \/ Connect
    \/ Disconnect
    \/ OnDisconnect
    \/ ConnectionStatusUpdate

(***************************************************************************)
(* Claims about the notifications of the active set.                       *)
(***************************************************************************)
\* C11: a telemetry packet whose processing leaves the active set as it was
\* emits no active_devices_updated notification; one that changes the set
\* emits exactly one, carrying the new set.
C11_NotifiesOnlyOnChange ==
    hw_call.handler = "_on_json" =>
        EmittedWith(hw_signals, "active_devices_updated") =
            IF active_devices = hw_call.prev_active THEN <<>> ELSE <<active_devices>>

\* a packet that carries a device already active, after something else made
\* the set change: carried again, nothing is notified
C11_Witness ==
    /\ hw_call.handler = "_on_json"
    /\ lastPacket.updated
    /\ lastPacket.at > 0
    /\ active_devices = {IdD1, IdD2}
    /\ hw_call.prev_active = active_devices
    /\ EmittedWith(hw_signals, "active_devices_updated") = <<>>

\* a group entry of the documented shape, or null
DocumentedGroupStatus(g) ==
    \/ g.t = "nil"
    \/ /\ g.t = "obj"
       /\ HasKey(g, KeyDevices) => Get(g, KeyDevices).t = "obj"

\* the payload lists groups of the documented shape and marks no device as
\* connected
ReportsZeroConnected(payload) ==
    /\ payload.t = "obj"
    /\ \A i \in 1..Len(payload.e) :
          /\ DocumentedGroupStatus(payload.e[i].v)
          /\ payload.e[i].v.t = "obj" /\ HasKey(payload.e[i].v, KeyDevices) =>
                \A j \in 1..Len(Get(payload.e[i].v, KeyDevices).e) :
                    Get(payload.e[i].v, KeyDevices).e[j].v = JBool(FALSE)

ForcedEmpty ==
    \/ hw_call.handler \in {"_on_disconnect", "disconnect"}
    \/ /\ hw_call.handler = "_on_connection_status_update"
       /\ ReportsZeroConnected(hw_call.payload)

\* C12: after a disconnect event, after disconnect(), and after a
\* connectionStatusUpdate that marks no device as connected, the active set is
\* empty at once, whatever the last-seen times are, and the call has emitted
\* one active-set notification, carrying the empty set.
C12_ForcedEmptyOnDisconnect ==
    ForcedEmpty =>
        /\ active_devices = {}
        /\ EmittedWith(hw_signals, "active_devices_updated") = <<{}>>

\* two devices seen this very instant, then a status update with every device
\* switched off
C12_Witness ==
    /\ hw_call.handler = "_on_connection_status_update"
    /\ ReportsZeroConnected(hw_call.payload)
    /\ hw_call.payload # JObj(<<>>)
    /\ hw_call.prev_active = {IdD1, IdD2}
    /\ \A d \in {IdD1, IdD2} : d \in DOMAIN device_last_seen /\ device_last_seen[d] = now
    /\ active_devices = {}

(***************************************************************************)
(* HardwareService: the directory handlers (_on_connected_groups,          *)
(* _on_group_definitions, _on_connected_device_list).                      *)
(***************************************************************************)
KeyResponse == <<"r", "e", "s", "p", "o", "n", "s", "e">>

KeyData == <<"d", "a", "t", "a">>

KeyGroups == <<"g", "r", "o", "u", "p", "s">>

KeyStatus == <<"s", "t", "a", "t", "u", "s">>

KeyAxfId == <<"a", "x", "f", "I", "d">>

KeyAxfUnderscoreId == <<"a", "x", "f", "_", "i", "d">>

KeyDeviceAxfId == <<"d", "e", "v", "i", "c", "e", "A", "x", "f", "I", "d">>

KeyDeviceAxfUnderscoreId == <<"d", "e", "v", "i", "c", "e", "_", "a", "x", "f", "_", "i", "d">>

KeyName == <<"n", "a", "m", "e">>

KeyDeviceName == <<"d", "e", "v", "i", "c", "e", "N", "a", "m", "e">>

KeyDeviceTypeId == <<"d", "e", "v", "i", "c", "e", "T", "y", "p", "e", "I", "d">>

KeyDeviceTypeUnderscoreId == <<"d", "e", "v", "i", "c", "e", "_", "t", "y", "p", "e", "_", "i", "d">>

KeyDeviceType == <<"d", "e", "v", "i", "c", "e", "T", "y", "p", "e">>

KeyDeviceUnderscoreType == <<"d", "e", "v", "i", "c", "e", "_", "t", "y", "p", "e">>

KeyType == <<"t", "y", "p", "e">>

KeyIsDeviceGroup == <<"i", "s", "D", "e", "v", "i", "c", "e", "G", "r", "o", "u", "p">>

KeyGroupConfiguration == <<"g", "r", "o", "u", "p", "C", "o", "n", "f", "i", "g", "u", "r", "a", "t", "i", "o", "n">>

KeyIsUnderscoreDeviceGroup == <<"i", "s", "_", "d", "e", "v", "i", "c", "e", "_", "g", "r", "o", "u", "p">>

KeyGroupUnderscoreConfiguration == <<"g", "r", "o", "u", "p", "_", "c", "o", "n", "f", "i", "g", "u", "r", "a", "t", "i", "o", "n">>


\* a or b or ... over the values of the keys, "" when none is truthy
RECURSIVE FirstTruthy(_, _)
FirstTruthy(obj, keys) ==
    IF keys = <<>> THEN JStr(<<>>)
    ELSE IF Truthy(Get(obj, Head(keys))) THEN Get(obj, Head(keys))
         ELSE FirstTruthy(obj, Tail(keys))

DigitChars == <<"0", "1", "2", "3", "4", "5", "6", "7", "8", "9">>

RECURSIVE Decimal(_)
Decimal(n) ==
    IF n < 10 THEN <<DigitChars[n + 1]>>
    ELSE Decimal(n \div 10) \o <<DigitChars[(n % 10) + 1]>>

\* str(v), for the values ids and names have here: strings, non-negative
\* integers and booleans
Str(v) ==
    CASE v.t = "str" -> v.s
      [] v.t = "int" -> Decimal(v.n)
      [] v.t = "bool" -> IF v.b THEN <<"T", "r", "u", "e">>
                         ELSE <<"F", "a", "l", "s", "e">>

Whitespace == {" "}

RECURSIVE StripLeft(_)
StripLeft(s) ==
    IF s # <<>> /\ Head(s) \in Whitespace THEN StripLeft(Tail(s)) ELSE s

RECURSIVE StripRight(_)
StripRight(s) ==
    IF s # <<>> /\ s[Len(s)] \in Whitespace
    THEN StripRight(SubSeq(s, 1, Len(s) - 1))
    ELSE s

\* str.strip()
Strip(s) == StripRight(StripLeft(s))

\* list(v): the items of a list, the keys of a dict, the characters of a
\* string; anything else raises
ListOf(v) ==
    CASE v.t = "arr" -> [ok |-> TRUE, items |-> v.e]
      [] v.t = "obj" -> [ok |-> TRUE, items |-> [i \in 1..Len(v.e) |-> JStr(v.e[i].k)]]
      [] v.t = "str" -> [ok |-> TRUE, items |-> [i \in 1..Len(v.s) |-> JStr(<<v.s[i]>>)]]
      [] OTHER -> [ok |-> FALSE]

\* an unwrapping that looks under "response" only
UnwrappedResponseOnly(payload) ==
    IF payload.t = "obj" /\ HasKey(payload, KeyResponse)
    THEN OrElse(Get(payload, KeyResponse), JArr(<<>>))
    ELSE payload

\* lines 940-942 (and 920-923): unwrap the status envelope
Unwrapped(payload) ==
    IF payload.t = "obj" /\ (HasKey(payload, KeyResponse) \/ HasKey(payload, KeyData))
    THEN OrElse(Get(payload, KeyResponse), OrElse(Get(payload, KeyData), JArr(<<>>)))
    ELSE payload

\* lines 943-950 (and 924-931): the list that is cached
CachedListOf(payload) ==
    LET data == Unwrapped(payload)
    IN CASE data.t = "arr" -> data.e
         [] data.t = "obj" /\ HasKey(data, KeyGroups) ->
              LET listed == ListOf(OrElse(Get(data, KeyGroups), JArr(<<>>)))
              IN IF listed.ok THEN listed.items ELSE <<>>
         [] OTHER -> <<>>

\* lines 967-978: raw_list
RawListOf(payload) ==
    LET DevicesOrGroups(obj) ==
            OrElse(Get(obj, KeyDevices), OrElse(Get(obj, KeyGroups), JArr(<<>>)))
    IN CASE payload.t = "arr" -> payload
         [] payload.t = "obj" ->
              LET inner == OrElse(Get(payload, KeyResponse),
                                  OrElse(Get(payload, KeyData), payload))
              IN CASE inner.t = "obj" -> DevicesOrGroups(inner)
                   [] inner.t = "arr" -> inner
                   [] OTHER -> DevicesOrGroups(payload)
         [] OTHER -> JArr(<<>>)

MarkerKeys ==
    {KeyIsDeviceGroup, KeyGroupConfiguration, KeyIsUnderscoreDeviceGroup,
     KeyGroupUnderscoreConfiguration}

\* lines 984-991: the first element is taken for a group object
LooksLikeGroups(first) ==
    /\ first.t = "obj"
    /\ HasKey(first, KeyDevices)
    /\ \E k \in MarkerKeys : HasKey(first, k)

\* the objects among the items
RECURSIVE ObjectsIn(_)
ObjectsIn(items) ==
    IF items = <<>> THEN <<>>
    ELSE (IF Head(items).t = "obj" THEN <<Head(items)>> ELSE <<>>) \o ObjectsIn(Tail(items))

\* lines 994-997 for one group: its device objects, or the exception
DevicesOfGroup(g) ==
    LET grp == OrEmptyObj(g)
    IN IF grp.t # "obj" THEN [ok |-> FALSE]
       ELSE LET listed == ListOf(OrElse(Get(grp, KeyDevices), JArr(<<>>)))
            IN IF listed.ok THEN [ok |-> TRUE, items |-> ObjectsIn(listed.items)]
               ELSE [ok |-> FALSE]

\* lines 981-1001: flattened, or the exception that leaves the list empty
Flattened(raw) ==
    IF raw.t # "arr"
    THEN \* raw_list[0] of a dict or a number raises; a string holds no dict
         [ok |-> raw.t = "str" \/ ~Truthy(raw), items |-> <<>>]
    ELSE IF raw.e # <<>> /\ LooksLikeGroups(raw.e[1])
         THEN IF \E i \in 1..Len(raw.e) : ~DevicesOfGroup(raw.e[i]).ok
              THEN [ok |-> FALSE, items |-> <<>>]
              ELSE [ok |-> TRUE,
                    items |-> Concat([i \in 1..Len(raw.e) |-> DevicesOfGroup(raw.e[i]).items])]
         ELSE [ok |-> TRUE, items |-> ObjectsIn(raw.e)]

DeviceTypes == { <<"0", "6">>, <<"0", "7">>, <<"0", "8">>, <<"1", "1">> }

\* _infer_device_type, lines 325-348
InferDeviceType(axf_id, hint) ==
    LET s == Strip(axf_id)
        dt == Strip(Str(OrElse(hint, JStr(<<>>))))
    IN IF s = <<>> THEN <<>>
       ELSE IF SubSeq(s, 1, Min(2, Len(s))) \in DeviceTypes THEN SubSeq(s, 1, 2)
       ELSE IF dt \in DeviceTypes THEN dt
       ELSE <<>>

IdKeys ==
    <<KeyAxfId, KeyAxfUnderscoreId, KeyDeviceAxfId, KeyDeviceAxfUnderscoreId,
      KeyId, KeyDeviceId, KeyDeviceUnderscoreId>>

TypeKeys ==
    <<KeyDeviceTypeId, KeyDeviceTypeUnderscoreId, KeyDeviceType,
      KeyDeviceUnderscoreType, KeyType>>

StrUnknown == <<"U", "n", "k", "n", "o", "w", "n">>

\* lines 1004-1026 for one item: the (name, axf_id, device_type) tuple, or
\* nothing for an item without an id
DeviceTuples(item) ==
    LET axf_id == Strip(Str(FirstTruthy(item, IdKeys)))
        named == FirstTruthy(item, <<KeyName, KeyDeviceName>>)
        name == IF Truthy(named) THEN Str(named) ELSE StrUnknown
    IN IF axf_id = <<>> THEN <<>>
       ELSE <<<<name, axf_id, InferDeviceType(axf_id, FirstTruthy(item, TypeKeys))>>>>

\* _on_connected_device_list, lines 965-1030: the list it emits
DeviceListOf(payload) ==
    LET flat == Flattened(RawListOf(payload))
    IN Concat([i \in 1..Len(flat.items) |-> DeviceTuples(flat.items[i])])

(***************************************************************************)
(* Directory payloads: device objects, group objects with and without the  *)
(* marker fields, the envelopes, and shapes that are none of them.         *)
(***************************************************************************)
DevA == JObj(<<KV(KeyAxfId, JStr(<<"0", "7", "a">>)), KV(KeyName, JStr(<<"A">>))>>)

DevB == JObj(<<KV(KeyDeviceId, JStr(<<"b", "1">>)), KV(KeyDeviceType, JStr(<<"1", "1">>))>>)

\* a device object that carries no id
DevAnon == JObj(<<KV(KeyName, JStr(<<"N">>))>>)

StrPitchingMound ==
    <<"P", "i", "t", "c", "h", "i", "n", "g", "M", "o", "u", "n", "d">>

\* a group object: its id, the marker fields it carries, its devices
GroupObject(gid, markers, devs) ==
    JObj(<<KV(KeyAxfId, JStr(gid))>> \o markers \o <<KV(KeyDevices, JArr(devs))>>)

GroupMarked == GroupObject(GidG1, <<KV(KeyIsDeviceGroup, JBool(TRUE))>>, <<DevA, DevB>>)

GroupConfigured ==
    GroupObject(GidG2, <<KV(KeyGroupConfiguration, JStr(StrPitchingMound))>>, <<DevB, DevAnon>>)

GroupPlain == GroupObject(GidG1, <<>>, <<DevA>>)

GroupEmpty == GroupObject(GidG2, <<KV(KeyIsUnderscoreDeviceGroup, JBool(TRUE))>>, <<>>)

\* the logical lists a directory event carries
LogicalLists ==
    { <<>>,
      <<DevA>>,
      <<DevA, DevB>>,
      <<GroupMarked>>,
      <<GroupConfigured, GroupMarked>>,
      <<GroupEmpty, GroupPlain>>,
      <<GroupPlain>>,
      <<GroupPlain, GroupMarked>> }

EnvelopeKinds == {"bare", "data", "response", "status_response"}

StrSuccess == <<"s", "u", "c", "c", "e", "s", "s">>

Envelope(kind, list) ==
    CASE kind = "bare" -> JArr(list)
      [] kind = "data" -> JObj(<<KV(KeyData, JArr(list))>>)
      [] kind = "response" -> JObj(<<KV(KeyResponse, JArr(list))>>)
      [] kind = "status_response" ->
            JObj(<<KV(KeyStatus, JStr(StrSuccess)), KV(KeyResponse, JArr(list))>>)

KeyMappings == <<"m", "a", "p", "p", "i", "n", "g", "s">>

KeyMembers == <<"m", "e", "m", "b", "e", "r", "s">>

KeyPosition == <<"p", "o", "s", "i", "t", "i", "o", "n">>

KeyPositionId == <<"p", "o", "s", "i", "t", "i", "o", "n", "I", "d">>

KeyPositionUnderscoreId == <<"p", "o", "s", "i", "t", "i", "o", "n", "_", "i", "d">>

KeyConfiguration == <<"c", "o", "n", "f", "i", "g", "u", "r", "a", "t", "i", "o", "n">>

KeyConfigurationId == <<"c", "o", "n", "f", "i", "g", "u", "r", "a", "t", "i", "o", "n", "I", "d">>

KeyConfigurationUnderscoreId == <<"c", "o", "n", "f", "i", "g", "u", "r", "a", "t", "i", "o", "n", "_", "i", "d">>

KeyGroupDefinitionId == <<"g", "r", "o", "u", "p", "D", "e", "f", "i", "n", "i", "t", "i", "o", "n", "I", "d">>

KeyGroupUnderscoreDefinitionUnderscoreId == <<"g", "r", "o", "u", "p", "_", "d", "e", "f", "i", "n", "i", "t", "i", "o", "n", "_", "i", "d">>

KeyGroupId == <<"g", "r", "o", "u", "p", "I", "d">>

PosLaunch == <<"L", "a", "u", "n", "c", "h", " ", "Z", "o", "n", "e">>

PosUpper == <<"U", "p", "p", "e", "r", " ", "L", "a", "n", "d", "i", "n", "g", " ", "Z", "o", "n", "e">>

PosLower == <<"L", "o", "w", "e", "r", " ", "L", "a", "n", "d", "i", "n", "g", " ", "Z", "o", "n", "e">>

PosExtra == <<"S", "i", "d", "e", " ", "Z", "o", "n", "e">>

StrPitching == <<"p", "i", "t", "c", "h", "i", "n", "g">>

StrMound == <<"m", "o", "u", "n", "d">>

StrPitchingMoundLower == <<"p", "i", "t", "c", "h", "i", "n", "g", "m", "o", "u", "n", "d">>

StrDualLaunchPad == <<"D", "u", "a", "l", "L", "a", "u", "n", "c", "h", "P", "a", "d">>

IdLaunchStored == <<"0", "7", "a", "b">>

IdLaunchTyped == <<"0", "7", "-", "A", "B">>

IdLaunchOdd == <<"-", " ", "0", "7", "a", "b">>

IdUpper == <<"u", "1">>

IdLower == <<"w", "1">>

IdOther == <<"x", "9">>

GidG3 == <<"G", "3">>

(***************************************************************************)
(* HardwareService: device ids and the group cache                         *)
(* (_normalize_device_id, resolve_group_id_for_device).                    *)
(***************************************************************************)
RECURSIVE RemoveHyphens(_)
\* s.replace("-", "")
RemoveHyphens(s) ==
    IF s = <<>> THEN <<>>
    ELSE (IF Head(s) = "-" THEN <<>> ELSE <<Head(s)>>) \o RemoveHyphens(Tail(s))

\* _normalize_device_id, lines 449-452, of a string (None counts as "")
NormalizeDeviceId(s) ==
    IF s = <<>> THEN <<>> ELSE RemoveHyphens(Lower(Strip(s)))

\* a mapping entry of a group instance
Mapping(posKey, devKey, pos, dev) == JObj(<<KV(posKey, JStr(pos)), KV(devKey, JStr(dev))>>)

\* a group instance: id, what names its definition, its mappings
GroupInstance(gid, label, mappings) ==
    JObj(<<KV(KeyAxfId, JStr(gid))>> \o label \o <<KV(KeyMappings, JArr(mappings))>>)

LabelConfiguration == <<KV(KeyGroupConfiguration, JStr(StrPitchingMound))>>

LabelDefinition == <<KV(KeyGroupDefinitionId, JStr(StrPitchingMound))>>

\* the three positions mapped to 07ab, u1, w1
MoundExact ==
    GroupInstance(GidG1, LabelConfiguration,
        <<Mapping(KeyPositionId, KeyDeviceId, PosLaunch, IdLaunchStored),
          Mapping(KeyPositionId, KeyDeviceId, PosUpper, IdUpper),
          Mapping(KeyPositionId, KeyDeviceId, PosLower, IdLower)>>)

\* the same map, listed in another order and with the other key names
MoundPermuted ==
    GroupInstance(GidG2, LabelDefinition,
        <<Mapping(KeyPositionUnderscoreId, KeyDeviceUnderscoreId, PosLower, IdLower),
          Mapping(KeyPosition, KeyDeviceId, PosLaunch, IdLaunchTyped),
          Mapping(KeyPositionUnderscoreId, KeyDeviceUnderscoreId, PosUpper, IdUpper)>>)

\* the same map and one further position
MoundExtra ==
    GroupInstance(GidG3, LabelConfiguration,
        <<Mapping(KeyPositionId, KeyDeviceId, PosLaunch, IdLaunchStored),
          Mapping(KeyPositionId, KeyDeviceId, PosUpper, IdUpper),
          Mapping(KeyPositionId, KeyDeviceId, PosLower, IdLower),
          Mapping(KeyPositionId, KeyDeviceId, PosExtra, IdOther)>>)

\* one position short
MoundLacking ==
    GroupInstance(GidG3, LabelConfiguration,
        <<Mapping(KeyPositionId, KeyDeviceId, PosLaunch, IdLaunchStored),
          Mapping(KeyPositionId, KeyDeviceId, PosUpper, IdUpper)>>)

\* another device on the lower landing zone
MoundOther ==
    GroupInstance(GidG3, LabelConfiguration,
        <<Mapping(KeyPositionId, KeyDeviceId, PosLaunch, IdLaunchStored),
          Mapping(KeyPositionId, KeyDeviceId, PosUpper, IdUpper),
          Mapping(KeyPositionId, KeyDeviceId, PosLower, IdOther)>>)

\* the same map in a group of another definition
PadExact ==
    GroupInstance(GidG3, <<KV(KeyGroupConfiguration, JStr(StrDualLaunchPad))>>,
        <<Mapping(KeyPositionId, KeyDeviceId, PosLaunch, IdLaunchStored),
          Mapping(KeyPositionId, KeyDeviceId, PosUpper, IdUpper),
          Mapping(KeyPositionId, KeyDeviceId, PosLower, IdLower)>>)

\* a group that lists its devices under members
MemberGroup ==
    JObj(<<KV(KeyId, JStr(GidG2)),
           KV(KeyMembers, JArr(<<JObj(<<KV(KeyAxfId, JStr(IdOther))>>),
                                 JObj(<<KV(KeyDeviceId, JStr(IdLaunchTyped))>>)>>))>>)

\* a group without an id
NamelessGroup ==
    JObj(<<KV(KeyName, JStr(<<"M">>)),
           KV(KeyDevices, JArr(<<JObj(<<KV(KeyAxfId, JStr(IdOther))>>)>>))>>)

\* the lists of group instances the backend reports
GroupLists ==
    { <<>>,
      <<MoundExact>>,
      <<MoundOther, MoundPermuted>>,
      <<MoundPermuted, MoundOther>>,
      <<MoundExtra>>,
      <<MoundLacking>>,
      <<PadExact>>,
      <<MemberGroup, MoundExact>>,
      <<NamelessGroup, GroupMarked, MemberGroup>>,
      <<JStr(GidG1), MoundOther>> }

GroupListPayloads == { Envelope("status_response", list) : list \in GroupLists }

\* the fourth accepted shape, bare and inside an envelope, and payloads of
\* other shapes: null, a string, a number, objects without a list, a groups
\* field that holds a map, a string or a number
OtherPayloads ==
    { JObj(<<KV(KeyStatus, JStr(StrSuccess)), KV(KeyGroups, JArr(<<GroupMarked>>))>>),
      JObj(<<KV(KeyData, JObj(<<KV(KeyGroups, JArr(<<GroupMarked>>))>>))>>),
      JObj(<<KV(KeyDevices, JArr(<<DevA>>))>>),
      JNil,
      JStr(<<"o", "k">>),
      JInt(1),
      JObj(<<>>),
      JObj(<<KV(KeyStatus, JStr(<<"e", "r", "r", "o", "r">>))>>),
      JObj(<<KV(KeyData, JStr(<<"x">>))>>),
      JObj(<<KV(KeyResponse, JObj(<<KV(KeyName, JStr(<<"A">>))>>))>>),
      JObj(<<KV(KeyGroups, JObj(<<KV(GidG1, GroupMarked)>>))>>),
      JObj(<<KV(KeyGroups, JStr(<<"G", "1">>))>>),
      JObj(<<KV(KeyGroups, JInt(1))>>) }

DirectoryPayloads ==
    { Envelope(kind, list) : kind \in EnvelopeKinds, list \in LogicalLists }
        \cup OtherPayloads

\* device lists for the inference of the device type: ids that begin with
\* each type the application knows (hardware.py line 555) or with none of
\* them, with no type field, with a known one and with one that is not
\* inferred
KnownPrefixes ==
    { <<"0", "6">>, <<"0", "7">>, <<"0", "8">>, <<"1", "0">>, <<"1", "1">>, <<"1", "2">> }

IdPrefixes == KnownPrefixes \cup { <<"9", "9">> }

TypeHints == { <<>>, <<"0", "7">>, <<"1", "0">> }

\* a device whose axfId begins with prefix; hint = "" stands for no type field
TypedDevice(prefix, hint) ==
    JObj(<<KV(KeyAxfId, JStr(prefix \o <<".", "5", "1">>))>>
         \o (IF hint = <<>> THEN <<>> ELSE <<KV(KeyDeviceTypeId, JStr(hint))>>))

TypedDevices == { TypedDevice(prefix, hint) : prefix \in IdPrefixes, hint \in TypeHints }

PrefixPayloads ==
    { JArr(<<d>>) : d \in TypedDevices } \cup { JArr(<<d, e>>) : d \in TypedDevices, e \in TypedDevices }

\* the tables of the handlers' functions over the payloads
CachedLists ==
    [payload \in DirectoryPayloads \cup GroupListPayloads |-> CachedListOf(payload)]

DeviceLists ==
    [payload \in DirectoryPayloads
                    \cup { JArr(CachedListOf(p)) : p \in DirectoryPayloads \cup GroupListPayloads }
                    \cup PrefixPayloads
        |-> DeviceListOf(payload)]

\* lines 939-957 for one payload: the list cached, and what
\* _on_connected_device_list makes of that list
ConnectedGroupsResult(payload) ==
    [payload |-> payload,
     cached |-> CachedLists[payload],
     devices |-> DeviceLists[JArr(CachedLists[payload])]]

\* HardwareService._on_connected_groups, lines 933-957
OnConnectedGroups(result) ==
    /\ groups' = result.cached
    /\ groups_current' = TRUE
    /\ hw_call' = [handler |-> "_on_connected_groups", payload |-> result.payload]
    /\ hw_signals' = <<Sig("device_list_updated", result.devices)>>
    /\ hw_emits' = <<>>
    /\ UNCHANGED <<outsideService, varsLiveness, status_connected, client,
                   connected_devices, group_definitions>>

\* HardwareService._on_group_definitions, lines 918-931, given the list it
\* takes from the payload
OnGroupDefinitionsWith(payload, cached) ==
    /\ group_definitions' = cached
    /\ hw_call' = [handler |-> "_on_group_definitions", payload |-> payload]
    /\ hw_signals' = <<>>
    /\ hw_emits' = <<>>
    /\ UNCHANGED <<outsideService, varsLiveness, status_connected, client,
                   connected_devices, groups, groups_current>>

OnGroupDefinitions(payload) == OnGroupDefinitionsWith(payload, CachedLists[payload])

\* HardwareService._on_connected_device_list, lines 959-1033
OnConnectedDeviceList(payload) ==
    /\ hw_call' = [handler |-> "_on_connected_device_list", payload |-> payload]
    /\ hw_signals' = <<Sig("device_list_updated", DeviceLists[payload])>>
    /\ hw_emits' = <<>>
    /\ UNCHANGED <<outsideService, varsLiveness, varsDirectory, status_connected,
                   client, connected_devices>>

DirectoryResults == { ConnectedGroupsResult(payload) : payload \in DirectoryPayloads }

ConnectedGroupsEvent == \E result \in DirectoryResults : OnConnectedGroups(result)

GroupDefinitionsEvent == \E payload \in DirectoryPayloads : OnGroupDefinitions(payload)

ConnectedDeviceListEvent == \E payload \in DirectoryPayloads : OnConnectedDeviceList(payload)

\* connectedDeviceList events that list devices by id, with and without type
TypedDeviceListEvent == \E payload \in PrefixPayloads : OnConnectedDeviceList(payload)

NextDeviceTypes == TypedDeviceListEvent

NextDirectory ==
    \/ ConnectedGroupsEvent
    \/ GroupDefinitionsEvent
    \/ ConnectedDeviceListEvent

(***************************************************************************)
(* Claims about the directory handlers.                                    *)
(***************************************************************************)
DirectoryHandlers ==
    {"_on_connected_groups", "_on_group_definitions", "_on_connected_device_list"}

\* what the latest call did to the cache and notified, per handler
DirectoryOutcome ==
    CASE hw_call.handler = "_on_connected_groups" ->
            [cached |-> groups, notified |-> EmittedWith(hw_signals, "device_list_updated")]
      [] hw_call.handler = "_on_group_definitions" ->
            [cached |-> group_definitions, notified |-> <<>>]
      [] hw_call.handler = "_on_connected_device_list" ->
            [cached |-> <<>>, notified |-> EmittedWith(hw_signals, "device_list_updated")]

\* what the delivery of the bare list makes of it, per handler
BareListOutcome(list) ==
    CASE hw_call.handler = "_on_connected_groups" ->
            [cached |-> list, notified |-> <<DeviceListOf(JArr(list))>>]
      [] hw_call.handler = "_on_group_definitions" ->
            [cached |-> list, notified |-> <<>>]
      [] hw_call.handler = "_on_connected_device_list" ->
            [cached |-> <<>>, notified |-> <<DeviceListOf(JArr(list))>>]

\* C13: a logical list delivered to a directory handler as {data: [...]} or as
\* {response: [...]} (with or without a status field) leaves the cache and
\* the device-list notification that its delivery as a bare list leaves.
C13_EnvelopesNormalizeAlike ==
    hw_call.handler \in DirectoryHandlers =>
        \A list \in LogicalLists : \A kind \in EnvelopeKinds :
            hw_call.payload = Envelope(kind, list) =>
                DirectoryOutcome = BareListOutcome(list)

C13_Witness ==
    /\ hw_call.handler = "_on_connected_groups"
    /\ hw_call.payload = Envelope("data", <<GroupConfigured, GroupMarked>>)
    /\ groups = <<GroupConfigured, GroupMarked>>
    /\ Len(EmittedWith(hw_signals, "device_list_updated")[1]) = 3

\* an object that carries a list under the key
HasListUnder(v, key) == v.t = "obj" /\ HasKey(v, key) /\ Get(v, key).t = "arr"

\* an object that carries, under the key, an object with a groups list
HasGroupsUnder(v, key) ==
    v.t = "obj" /\ HasKey(v, key) /\ HasListUnder(Get(v, key), KeyGroups)

\* the payload is a bare list, {data: [...]}, {response: [...]} or
\* {..., groups: [...]}, the last one bare or inside an envelope
AcceptedShape(payload) ==
    \/ payload.t = "arr"
    \/ HasListUnder(payload, KeyData)
    \/ HasListUnder(payload, KeyResponse)
    \/ HasListUnder(payload, KeyGroups)
    \/ HasGroupsUnder(payload, KeyData)
    \/ HasGroupsUnder(payload, KeyResponse)

\* C14: a payload of none of the accepted shapes, delivered to
\* _on_connected_groups or _on_group_definitions, leaves the handler's cached
\* list empty, and _on_connected_groups notifies an empty device list.
C14_UnknownShapeIsEmpty ==
    (hw_call.handler \in {"_on_connected_groups", "_on_group_definitions"}
        /\ ~AcceptedShape(hw_call.payload)) =>
            /\ DirectoryOutcome.cached = <<>>
            /\ hw_call.handler = "_on_connected_groups" =>
                  DirectoryOutcome.notified = << <<>> >>

\* a list of group objects: each an object with a devices list
ListOfGroups(list) ==
    /\ list # <<>>
    /\ \A i \in 1..Len(list) : HasListUnder(list[i], KeyDevices)

\* the devices nested in the groups of the list, as (name, id, type) tuples
NestedDevices(list) ==
    Concat([i \in 1..Len(list) |->
              LET devs == Get(list[i], KeyDevices).e
              IN Concat([j \in 1..Len(devs) |-> DeviceTuples(devs[j])])])

\* C15: a device-list event that carries a list of group objects is notified
\* as exactly the devices nested in the groups, whichever marker fields the
\* group objects carry, none included.
C15_GroupsAreFlattened ==
    hw_call.handler = "_on_connected_device_list" =>
        \A list \in LogicalLists : \A kind \in EnvelopeKinds :
            (hw_call.payload = Envelope(kind, list) /\ ListOfGroups(list)) =>
                EmittedWith(hw_signals, "device_list_updated") = <<NestedDevices(list)>>

(***************************************************************************)
(* resolve_group_id_for_device, lines 454-489.                             *)
(***************************************************************************)
\* grp.get(key) or [], as the for loop takes it: the entries of a list; the
\* loop over anything else raises in its first turn, as an entry does that
\* is no object
RelationOf(grp, key) ==
    LET v == OrElse(Get(grp, key), JArr(<<>>))
    IN IF v.t = "arr" THEN v.e ELSE <<JNil>>

RECURSIVE ScanRelation(_, _, _)
\* one of the three for loops: "hit" on the first entry whose id normalizes
\* to did_norm, "raise" on an entry that is no object, "miss" at the end
ScanRelation(entries, idKeys, did_norm) ==
    IF entries = <<>> THEN "miss"
    ELSE IF Head(entries).t # "obj" THEN "raise"
    ELSE LET cand == Strip(Str(FirstTruthy(Head(entries), idKeys)))
         IN IF cand # <<>> /\ NormalizeDeviceId(cand) = did_norm THEN "hit"
            ELSE ScanRelation(Tail(entries), idKeys, did_norm)

DevicesIdKeys == <<KeyAxfId, KeyId, KeyDeviceId, KeyDeviceUnderscoreId>>

MappingsIdKeys == <<KeyDeviceId, KeyDeviceUnderscoreId>>

MembersIdKeys == <<KeyDeviceId, KeyDeviceUnderscoreId, KeyAxfId, KeyId>>

\* a lookup that leaves the members relation out
RelationsSearchedWithoutMembers ==
    << <<KeyDevices, DevicesIdKeys>>, <<KeyMappings, MappingsIdKeys>> >>

\* lines 467-486: the relations, in the order they are searched
RelationsSearched ==
    << <<KeyDevices, DevicesIdKeys>>, <<KeyMappings, MappingsIdKeys>>,
       <<KeyMembers, MembersIdKeys>> >>

RECURSIVE ScanRelations(_, _, _)
ScanRelations(grp, relations, did_norm) ==
    IF relations = <<>> THEN "miss"
    ELSE LET r == ScanRelation(RelationOf(grp, Head(relations)[1]), Head(relations)[2], did_norm)
         IN IF r = "miss" THEN ScanRelations(grp, Tail(relations), did_norm) ELSE r

GroupIdKeys == <<KeyAxfId, KeyAxfUnderscoreId, KeyId>>

NoGroup == [found |-> FALSE]

RECURSIVE ResolveIn(_, _)
\* lines 460-489: the loop over the cached groups
ResolveIn(cached, did_norm) ==
    IF cached = <<>> THEN NoGroup
    ELSE LET grp == OrEmptyObj(Head(cached))
         IN IF grp.t # "obj" THEN ResolveIn(Tail(cached), did_norm)
            ELSE LET gid == Strip(Str(FirstTruthy(grp, GroupIdKeys)))
                 IN IF gid # <<>> /\ ScanRelations(grp, RelationsSearched, did_norm) = "hit"
                    THEN [found |-> TRUE, gid |-> gid]
                    ELSE ResolveIn(Tail(cached), did_norm)

\* resolve_group_id_for_device(device_id)
ResolveGroupIdForDevice(cached, device_id) ==
    LET did_norm == NormalizeDeviceId(device_id)
    IN IF did_norm = <<>> \/ cached = <<>> THEN NoGroup ELSE ResolveIn(cached, did_norm)

\* the ids asked for: as stored, as typed, with blanks around, unknown, empty
QueryIds ==
    { IdLaunchStored, IdLaunchTyped, <<" ">> \o IdLaunchTyped \o <<" ">>,
      IdOther, <<"X", "-", "9">>, <<"0", "7", "a">>, <<"b", "1">>, <<"z", "z">>, <<>> }

ResolveGroup ==
    \E device_id \in QueryIds :
        /\ hw_call' = [handler |-> "resolve_group_id_for_device",
                       device_id |-> device_id,
                       result |-> ResolveGroupIdForDevice(groups, device_id)]
        /\ hw_signals' = <<>>
        /\ hw_emits' = <<>>
        /\ UNCHANGED <<outsideService, varsLiveness, varsDirectory, status_connected,
                       client, connected_devices>>

(***************************************************************************)
(* find_or_create_mound_group, lines 568-642: the Match step.              *)
(***************************************************************************)
ConfigurationKeys ==
    <<KeyGroupConfiguration, KeyGroupUnderscoreConfiguration, KeyConfiguration,
      KeyConfigurationId, KeyConfigurationUnderscoreId>>

DefinitionKeys == <<KeyGroupDefinitionId, KeyGroupUnderscoreDefinitionUnderscoreId>>

PositionKeys == <<KeyPosition, KeyPositionId, KeyPositionUnderscoreId>>

\* lines 593-606: the group names the mound in its configuration or in its
\* definition id
IsMoundGroup(g) ==
    LET cfg == Lower(Str(FirstTruthy(g, ConfigurationKeys)))
        def_id == Lower(Str(FirstTruthy(g, DefinitionKeys)))
    IN \/ Contains(cfg, StrPitching)
       \/ Contains(cfg, StrMound)
       \/ Contains(cfg, StrPitchingMoundLower)
       \/ Contains(def_id, StrPitchingMoundLower)

RECURSIVE GroupDevices(_, _)
\* lines 610-615: position -> normalized device id, a later entry replacing
\* an earlier one of the same position; an entry that is no object raises
GroupDevices(entries, acc) ==
    IF entries = <<>> THEN [ok |-> TRUE, map |-> acc]
    ELSE IF Head(entries).t # "obj" THEN [ok |-> FALSE]
    ELSE LET pos == Strip(Str(FirstTruthy(Head(entries), PositionKeys)))
             did == Strip(Str(FirstTruthy(Head(entries), MappingsIdKeys)))
         IN GroupDevices(Tail(entries),
                IF pos # <<>> /\ did # <<>>
                THEN [p \in DOMAIN acc \cup {pos} |->
                         IF p = pos THEN NormalizeDeviceId(did) ELSE acc[p]]
                ELSE acc)

\* group_devices.get(pos) == norm
MapsTo(group_devices, pos, norm) ==
    pos \in DOMAIN group_devices /\ group_devices[pos] = norm

\* lines 586-588, 618-622
PositionsMatch(group_devices, desired) ==
    /\ MapsTo(group_devices, PosLaunch, NormalizeDeviceId(desired.launch))
    /\ MapsTo(group_devices, PosUpper, NormalizeDeviceId(desired.upper))
    /\ MapsTo(group_devices, PosLower, NormalizeDeviceId(desired.lower))

\* lines 592-627, one turn of the loop: the group is the one looked for
\* (an exception passes the group over)
MatchesDesired(g, desired) ==
    /\ g.t = "obj"
    /\ IsMoundGroup(g)
    /\ LET group_devices == GroupDevices(RelationOf(g, KeyMappings), <<>>)
       IN group_devices.ok /\ PositionsMatch(group_devices.map, desired)

\* a scan that finds no group
NoPlace(cached, desired) == 0

\* lines 591-627: the place of the first cached group that matches, 0 if none
MatchIndex(cached, desired) ==
    LET places == { i \in 1..Len(cached) : MatchesDesired(cached[i], desired) }
    IN IF places = {} THEN 0 ELSE CHOOSE i \in places : \A j \in places : i <= j

(***************************************************************************)
(* _create_mound_group, lines 644-907: the creation request.               *)
(***************************************************************************)
KeyGroupDefinitionName == <<"g", "r", "o", "u", "p", "D", "e", "f", "i", "n", "i", "t", "i", "o", "n", "N", "a", "m", "e">>

KeyGroupUnderscoreDefinitionUnderscoreName == <<"g", "r", "o", "u", "p", "_", "d", "e", "f", "i", "n", "i", "t", "i", "o", "n", "_", "n", "a", "m", "e">>

KeyRequiredGroupPositions == <<"r", "e", "q", "u", "i", "r", "e", "d", "G", "r", "o", "u", "p", "P", "o", "s", "i", "t", "i", "o", "n", "s">>

KeyRequiredUnderscoreGroupUnderscorePositions == <<"r", "e", "q", "u", "i", "r", "e", "d", "_", "g", "r", "o", "u", "p", "_", "p", "o", "s", "i", "t", "i", "o", "n", "s">>

KeyRequiredDevices == <<"r", "e", "q", "u", "i", "r", "e", "d", "D", "e", "v", "i", "c", "e", "s">>

KeyRequiredUnderscoreDevices == <<"r", "e", "q", "u", "i", "r", "e", "d", "_", "d", "e", "v", "i", "c", "e", "s">>

KeyMappingIndex == <<"m", "a", "p", "p", "i", "n", "g", "I", "n", "d", "e", "x">>

KeyMappingUnderscoreIndex == <<"m", "a", "p", "p", "i", "n", "g", "_", "i", "n", "d", "e", "x">>

KeyRotation == <<"r", "o", "t", "a", "t", "i", "o", "n">>

KeyMessage == <<"m", "e", "s", "s", "a", "g", "e">>

KeyError == <<"e", "r", "r", "o", "r">>

KeyGroupUnderscoreId == <<"g", "r", "o", "u", "p", "_", "i", "d">>

\* how many requests and pending timers the model follows
MaxRequests == 2

MaxTimers == 3

DefinitionIdKeys == <<KeyAxfUnderscoreId, KeyAxfId>>

DefinitionNameKeys ==
    <<KeyName, KeyGroupUnderscoreDefinitionUnderscoreName, KeyGroupDefinitionName>>

RequiredKeys ==
    <<KeyRequiredUnderscoreGroupUnderscorePositions, KeyRequiredGroupPositions,
      KeyRequiredUnderscoreDevices, KeyRequiredDevices>>

\* lines 801-805: the definition is the mound's
IsMoundDefinition(gd) ==
    LET axf_id == Strip(Str(FirstTruthy(gd, DefinitionIdKeys)))
        name == Lower(Strip(Str(FirstTruthy(gd, DefinitionNameKeys))))
    IN \/ axf_id = StrPitchingMound
       \/ Contains(name, StrPitching) /\ Contains(name, StrMound)

RequiredPosition(pos, midx, rot) ==
    JObj(<<KV(KeyPositionUnderscoreId, JStr(pos)),
           KV(KeyMappingUnderscoreIndex, JInt(midx)),
           KV(KeyRotation, JInt(rot))>>)

\* defaults that turn no zone
DefaultUnrotated ==
    <<RequiredPosition(PosLaunch, 0, 0),
      RequiredPosition(PosUpper, 1, 0),
      RequiredPosition(PosLower, 2, 0)>>

\* lines 813-817
DefaultRequired ==
    <<RequiredPosition(PosLaunch, 0, -90),
      RequiredPosition(PosUpper, 1, 0),
      RequiredPosition(PosLower, 2, 0)>>

\* lines 795-817: def_id and req, from the first cached definition of the
\* mound (definitions that are no objects are passed over)
MoundDefinition(defs) ==
    LET places == { i \in 1..Len(defs) : defs[i].t = "obj" /\ IsMoundDefinition(defs[i]) }
    IN IF places = {}
       THEN [def_id |-> StrPitchingMound, req |-> DefaultRequired]
       ELSE LET gd == defs[CHOOSE i \in places : \A j \in places : i <= j]
                axf_id == Strip(Str(FirstTruthy(gd, DefinitionIdKeys)))
                listed == ListOf(OrElse(FirstTruthy(gd, RequiredKeys), JArr(<<>>)))
            IN [def_id |-> IF axf_id # <<>> THEN axf_id ELSE StrPitchingMound,
                req |-> IF listed.ok /\ listed.items # <<>>
                        THEN listed.items ELSE DefaultRequired]

\* by_pos.get(pos) or "", lines 820-824 and 833
ByPos(desired, pos) ==
    CASE pos = PosLaunch -> desired.launch
      [] pos = PosUpper -> desired.upper
      [] pos = PosLower -> desired.lower
      [] OTHER -> <<>>

RECURSIVE CreationMappings(_, _)
\* lines 826-844: one mapping per required position that has a device
\* (a required position that is no object, or whose index or rotation is
\* no integer, is passed over)
CreationMappings(req, desired) ==
    IF req = <<>> THEN <<>>
    ELSE LET r == Head(req)
             rest == CreationMappings(Tail(req), desired)
         IN IF r.t # "obj" THEN rest
            ELSE LET pos == Strip(Str(FirstTruthy(r, <<KeyPositionUnderscoreId, KeyPositionId>>)))
                     midx == IntOf(OrElse(FirstTruthy(r, <<KeyMappingUnderscoreIndex, KeyMappingIndex>>), JInt(0)))
                     rot == IntOf(OrElse(Get(r, KeyRotation), JInt(0)))
                     did == Strip(ByPos(desired, pos))
                 IN IF ~midx.ok \/ ~rot.ok \/ pos = <<>> \/ did = <<>> THEN rest
                    ELSE <<JObj(<<KV(KeyPositionUnderscoreId, JStr(pos)),
                                  KV(KeyMappingUnderscoreIndex, JInt(midx.n)),
                                  KV(KeyDeviceUnderscoreId, JStr(did)),
                                  KV(KeyRotation, JInt(rot.n))>>)>> \o rest

\* group definitions the backend reports: the mound's with its positions in
\* another order of indexes and with rotations, with a fourth position, under
\* the camelCase keys and without rotations, with no position; and the
\* definition of another group
DefinitionOf(axf_id, positions) ==
    JObj(<<KV(KeyAxfUnderscoreId, JStr(axf_id)),
           KV(KeyRequiredUnderscoreGroupUnderscorePositions, JArr(positions))>>)

CamelPosition(pos, midx) ==
    JObj(<<KV(KeyPositionId, JStr(pos)), KV(KeyMappingIndex, JInt(midx))>>)

PositionsTurned ==
    <<RequiredPosition(PosLaunch, 2, 90),
      RequiredPosition(PosUpper, 0, 0),
      RequiredPosition(PosLower, 1, 180)>>

PositionsFour == PositionsTurned \o <<RequiredPosition(PosExtra, 3, 0)>>

PositionsCamel ==
    <<CamelPosition(PosUpper, 1), CamelPosition(PosLower, 2), CamelPosition(PosLaunch, 0)>>

DefinitionLists ==
    { <<>>,
      <<DefinitionOf(StrPitchingMound, PositionsTurned)>>,
      <<DefinitionOf(StrDualLaunchPad, PositionsFour),
        DefinitionOf(StrPitchingMound, PositionsTurned)>>,
      <<DefinitionOf(StrPitchingMound, PositionsFour)>>,
      <<DefinitionOf(StrPitchingMound, PositionsCamel)>>,
      <<DefinitionOf(StrPitchingMound, <<>>)>>,
      <<DefinitionOf(StrDualLaunchPad, PositionsFour)>> }

\* what the closures of one call of _create_mound_group share: the device
\* ids, done["v"], def_id and mappings; the rest is history: resolved is the
\* first outcome notification these closures emitted, legacy says that
\* on_create_status took the restart path (lines 759-764), dropped that
\* _on_disconnect ran while no outcome was emitted yet
Unresolved == [sig |-> "none"]

NewRequest(desired) ==
    LET definition == MoundDefinition(group_definitions)
    IN [desired |-> desired,
        done |-> FALSE,
        resolved |-> Unresolved,
        legacy |-> FALSE,
        dropped |-> FALSE,
        def_id |-> definition.def_id,
        mappings |-> CreationMappings(definition.req, desired)]

\* the delays of the single-shot timers, in ms: lines 905, 752, 763-764
TimerDelays ==
    [_retry_once |-> {1200}, fetch_discovery |-> {500}, _recheck_after_reinit |-> {1500, 3000}]

\* QTimer.singleShot(delay, fn) of the request's closure fn (req is 0 for
\* self.fetch_discovery, which belongs to no request); pending timers fire in
\* any order, so the delay is no part of what is kept of a timer
Timer(fn, req) == [fn |-> fn, req |-> req]

Pending(ts) == BagCardinality(ts)

Schedule(ts, new) == ts (+) new

\* the devices asked for: as typed, another lower landing device, an id with
\* a hyphen in front of a blank, no lower landing device
DesiredTyped == [launch |-> IdLaunchTyped, upper |-> IdUpper, lower |-> IdLower]

DesiredOther == [launch |-> IdLaunchStored, upper |-> IdUpper, lower |-> IdOther]

DesiredOdd == [launch |-> IdLaunchOdd, upper |-> IdUpper, lower |-> IdLower]

DesiredPartial == [launch |-> IdLaunchStored, upper |-> IdUpper, lower |-> <<>>]

DesiredMappings == {DesiredTyped, DesiredOther, DesiredOdd, DesiredPartial}

NotConnectedBackend == "Not connected to backend"

NotConnectedSocket == "Not connected (socket.io) - cannot create mound group"

\* the table of the Match step over the group lists and the devices asked for
ReportedGroupLists == { CachedLists[payload] : payload \in GroupListPayloads }

MatchPlaces ==
    [cached \in ReportedGroupLists |->
        [desired \in DesiredMappings |-> MatchIndex(cached, desired)]]

\* lines 591-622: the place in self._groups of the first group that matches
\* (0: none)
MatchPlace(desired) ==
    IF groups \in ReportedGroupLists
    THEN MatchPlaces[groups][desired]
    ELSE MatchIndex(groups, desired)

\* a creation that does not test the client's status.connected
OutcomeAtUntested(place, create_if_missing) ==
    CASE ~client ->
           [signals |-> <<Sig("mound_group_error", NotConnectedBackend)>>, creates |-> FALSE]
      [] client /\ place # 0 ->
           [signals |-> <<Sig("mound_group_found", groups[place])>>, creates |-> FALSE]
      [] client /\ place = 0 /\ ~create_if_missing ->
           [signals |-> <<>>, creates |-> FALSE]
      [] OTHER ->
           [signals |-> <<>>, creates |-> TRUE]

\* lines 581-656, given the place of the match
OutcomeAt(place, create_if_missing) ==
    CASE ~client ->
           [signals |-> <<Sig("mound_group_error", NotConnectedBackend)>>, creates |-> FALSE]
      [] client /\ place # 0 ->
           [signals |-> <<Sig("mound_group_found", groups[place])>>, creates |-> FALSE]
      [] client /\ place = 0 /\ ~create_if_missing ->
           [signals |-> <<>>, creates |-> FALSE]
      [] client /\ place = 0 /\ create_if_missing /\ ~status_connected ->
           [signals |-> <<Sig("mound_group_error", NotConnectedSocket)>>, creates |-> FALSE]
      [] OTHER ->
           [signals |-> <<>>, creates |-> TRUE]

\* find_or_create_mound_group and, from line 637, _create_mound_group up to
\* its return: the signals, and whether a creation request is sent
FindOrCreateOutcome(desired, create_if_missing) ==
    OutcomeAt(MatchPlace(desired), create_if_missing)

\* what a call of find_or_create_mound_group with the outcome `out` leaves
\* behind: a creation registers on_create_status for both status events,
\* sends createTemporaryGroup and starts the 1.2 s timer
FindOrCreateEffects(desired, create_if_missing, out, scheduled) ==
    LET req == Len(requests) + 1
    IN /\ out.creates => (Len(requests) < MaxRequests /\ Pending(timers) < MaxTimers)
       /\ requests' = IF out.creates THEN Append(requests, NewRequest(desired)) ELSE requests
       /\ status_handler' = IF out.creates THEN req ELSE status_handler
       /\ timers' = Schedule(timers, scheduled)
       /\ hw_call' = [handler |-> "find_or_create_mound_group",
                      desired |-> desired,
                      create_if_missing |-> create_if_missing,
                      scheduled |-> scheduled]
       /\ hw_signals' = out.signals
       /\ hw_emits' = IF out.creates THEN <<"createTemporaryGroup">> ELSE <<>>
       /\ UNCHANGED <<outsideHardware, varsLiveness, varsDirectory, status_connected,
                      client, connected_devices>>

\* the 1.2 s timer of the request a call sends, line 905
RetryTimerOf(out) ==
    IF out.creates THEN SetToBag({Timer("_retry_once", Len(requests) + 1)}) ELSE EmptyBag

FindOrCreateWith(desired, create_if_missing, out) ==
    FindOrCreateEffects(desired, create_if_missing, out, RetryTimerOf(out))

\* HardwareService.find_or_create_mound_group(launch, upper, lower,
\* create_if_missing)
FindOrCreateMoundGroup(desired, create_if_missing) ==
    FindOrCreateWith(desired, create_if_missing,
                     FindOrCreateOutcome(desired, create_if_missing))

FindOrCreateCall ==
    \E desired \in DesiredMappings : \E create_if_missing \in BOOLEAN :
        FindOrCreateMoundGroup(desired, create_if_missing)

\* a getConnectedGroupsStatus event that reports group instances, delivered
\* by the client
GroupListResults == { ConnectedGroupsResult(payload) : payload \in GroupListPayloads }

GroupListEvent ==
    /\ client /\ status_connected
    /\ \E result \in GroupListResults : OnConnectedGroups(result)

NextGroups ==
    \/ GroupListEvent
    \/ ResolveGroup
    \/ Connect
    \/ OnConnect
    \/ Disconnect
    \/ FindOrCreateCall

(***************************************************************************)
(* Claims about the group cache.                                           *)
(***************************************************************************)
\* the ids a group lists under a relation, normalized as mapping ids are
IdsUnder(g, relation, idKeys) ==
    IF g.t = "obj" /\ HasKey(g, relation) /\ Get(g, relation).t = "arr"
    THEN { NormalizeDeviceId(Strip(Str(FirstTruthy(Get(g, relation).e[i], idKeys)))) :
              i \in { j \in 1..Len(Get(g, relation).e) : Get(g, relation).e[j].t = "obj" } }
    ELSE {}

\* the group references the device under devices, mappings or members
References(g, did_norm) ==
    \/ did_norm \in IdsUnder(g, KeyDevices, DevicesIdKeys)
    \/ did_norm \in IdsUnder(g, KeyMappings, MappingsIdKeys)
    \/ did_norm \in IdsUnder(g, KeyMembers, MembersIdKeys)

\* the id a group object carries ("" when none)
IdOfGroup(g) == IF g.t = "obj" THEN Strip(Str(FirstTruthy(g, GroupIdKeys))) ELSE <<>>

\* the places of the cache whose group carries an id and references the device
ReferringPlaces(cached, did_norm) ==
    { i \in 1..Len(cached) : IdOfGroup(cached[i]) # <<>> /\ References(cached[i], did_norm) }

\* C16: resolve_group_id_for_device normalizes the queried id (blanks off,
\* lower case, hyphens out) and returns the id of the first cached group that
\* references that device under devices, mappings or members; it returns none
\* when the id is empty, when no group is cached and when no cached group
\* references the device.
C16_ResolvesReferringGroup ==
    hw_call.handler = "resolve_group_id_for_device" =>
        LET did_norm == RemoveHyphens(Lower(Strip(hw_call.device_id)))
            places == ReferringPlaces(groups, did_norm)
        IN IF did_norm = <<>> \/ places = {}
           THEN hw_call.result = NoGroup
           ELSE /\ hw_call.result.found
                /\ hw_call.result.gid =
                      IdOfGroup(groups[CHOOSE i \in places : \A j \in places : i <= j])

\* X-9 asked for while the cache lists x9 under the members of the second
\* group with an id, after a group without an id that lists it under devices
C16_Witness ==
    /\ hw_call.handler = "resolve_group_id_for_device"
    /\ hw_call.device_id = <<"X", "-", "9">>
    /\ groups = <<NamelessGroup, GroupMarked, MemberGroup>>
    /\ hw_call.result = [found |-> TRUE, gid |-> GidG2]

(***************************************************************************)
(* Claims about the Match step.                                            *)
(***************************************************************************)
\* the latest call is find_or_create_mound_group, made while a client exists
MatchStepRan == hw_call.handler = "find_or_create_mound_group" /\ client

\* the call resolved found
ResolvedFound == EmittedWith(hw_signals, "mound_group_found") # <<>>

\* the group's own position -> device map, as the set of its pairs
OwnMap(g) ==
    LET entries == Get(g, KeyMappings).e
        pos(i) == Strip(Str(FirstTruthy(entries[i], PositionKeys)))
        did(i) == Strip(Str(FirstTruthy(entries[i], MappingsIdKeys)))
    IN { <<pos(i), RemoveHyphens(Lower(did(i)))>> :
            i \in { j \in 1..Len(entries) : pos(j) # <<>> /\ did(j) # <<>> } }

\* the desired mapping, as the set of its pairs
DesiredMap(desired) ==
    { <<PosLaunch, RemoveHyphens(Lower(Strip(desired.launch)))>>,
      <<PosUpper, RemoveHyphens(Lower(Strip(desired.upper)))>>,
      <<PosLower, RemoveHyphens(Lower(Strip(desired.lower)))>> }

\* a mound group whose own map is the desired one, no pair more and none less
ExactlyEqual(g, desired) ==
    /\ g.t = "obj"
    /\ IsMoundGroup(g)
    /\ HasListUnder(g, KeyMappings)
    /\ \A i \in 1..Len(Get(g, KeyMappings).e) : Get(g, KeyMappings).e[i].t = "obj"
    /\ OwnMap(g) = DesiredMap(desired)

\* C17: the Match step resolves found iff the cache holds a mound group whose
\* own position-to-device map equals the desired mapping exactly; a group
\* that maps a further position, or lacks one, does not match.
C17_MatchIsExactEquality ==
    MatchStepRan =>
        (ResolvedFound <=> \E i \in 1..Len(groups) : ExactlyEqual(groups[i], hw_call.desired))

RECURSIVE Reverse(_)
Reverse(s) == IF s = <<>> THEN <<>> ELSE Reverse(Tail(s)) \o <<Head(s)>>

\* the group with its mappings listed in the opposite order
MappingsReversed(g) ==
    IF g.t = "obj" /\ HasListUnder(g, KeyMappings)
    THEN JObj([i \in 1..Len(g.e) |->
                  IF g.e[i].k = KeyMappings
                  THEN KV(KeyMappings, JArr(Reverse(g.e[i].v.e)))
                  ELSE g.e[i]])
    ELSE g

\* the cache in other orders: the groups reversed, each group's mappings
\* reversed, both
Rearranged(cached) ==
    { Reverse(cached),
      [i \in 1..Len(cached) |-> MappingsReversed(cached[i])],
      Reverse([i \in 1..Len(cached) |-> MappingsReversed(cached[i])]) }

UpperChar(c) ==
    IF \E u \in DOMAIN UpperToLower : UpperToLower[u] = c
    THEN CHOOSE u \in DOMAIN UpperToLower : UpperToLower[u] = c
    ELSE c

Upper(s) == [i \in 1..Len(s) |-> UpperChar(s[i])]

\* the id with a hyphen after its first character
Hyphenated(s) == IF s = <<>> THEN s ELSE <<Head(s), "-">> \o Tail(s)

\* the desired devices spelled otherwise: in capitals, with a further hyphen
Respelled(desired) ==
    { [launch |-> Upper(desired.launch), upper |-> Upper(desired.upper),
       lower |-> Upper(desired.lower)],
      [launch |-> Hyphenated(desired.launch), upper |-> Hyphenated(desired.upper),
       lower |-> Hyphenated(desired.lower)] }

\* whether the Match step finds a group does not depend on the order of the
\* cached groups or of their mappings, nor on capitals and hyphens in the ids
MatchIgnoresOrderAndSpelling ==
    MatchStepRan =>
        /\ \A cached \in Rearranged(groups) :
              (MatchIndex(cached, hw_call.desired) # 0) <=> ResolvedFound
        /\ \A respelled \in Respelled(hw_call.desired) :
              (MatchIndex(groups, respelled) # 0) <=> ResolvedFound

\* normalizing a normalized id changes nothing
NormalizeIsIdempotent(id) ==
    NormalizeDeviceId(NormalizeDeviceId(id)) = NormalizeDeviceId(id)

\* C18: group matching is independent of the order of the cached groups, of
\* the order of a group's mappings and of the casing and hyphens of device
\* ids, and _normalize_device_id is idempotent on the ids it is given.
C18_MatchIgnoresOrderAndCase ==
    /\ MatchIgnoresOrderAndSpelling
    /\ MatchStepRan =>
          /\ NormalizeIsIdempotent(hw_call.desired.launch)
          /\ NormalizeIsIdempotent(hw_call.desired.upper)
          /\ NormalizeIsIdempotent(hw_call.desired.lower)

\* the cache holds a group the Match step accepts for the desired mapping
HoldsMatch(cached, desired) ==
    \E i \in 1..Len(cached) : MatchesDesired(cached[i], desired)

\* the latest call resolved found with a group the Match step accepts, sent
\* no command and started no timer
FoundWithoutRoundTrip ==
    /\ Len(EmittedWith(hw_signals, "mound_group_found")) = 1
    /\ MatchesDesired(EmittedWith(hw_signals, "mound_group_found")[1], hw_call.desired)
    /\ EmittedWith(hw_signals, "mound_group_created") = <<>>
    /\ EmittedWith(hw_signals, "mound_group_error") = <<>>
    /\ hw_emits = <<>>
    /\ hw_call.scheduled = EmptyBag

GroupName == <<"P", "i", "t", "c", "h", "i", "n", "g", " ", "M", "o", "u", "n", "d">>

StrRestart == <<"r", "e", "s", "t", "a", "r", "t">>

StrSavedSuccessfully == <<"s", "a", "v", "e", "d", " ", "s", "u", "c", "c", "e", "s", "s", "f", "u", "l", "l", "y">>

\* line 712
StatusIdKeys == <<KeyAxfId, KeyAxfUnderscoreId, KeyGroupId, KeyId>>

\* line 731
TemporaryIdKeys == <<KeyGroupUnderscoreId, KeyGroupId, KeyAxfId>>

\* lines 739-745: a mapping of the request under the camelCase keys
CamelMapping(m) ==
    JObj(<<KV(KeyPositionId, Get(m, KeyPositionUnderscoreId)),
           KV(KeyMappingIndex, Get(m, KeyMappingUnderscoreIndex)),
           KV(KeyDeviceId, Get(m, KeyDeviceUnderscoreId)),
           KV(KeyRotation, Get(m, KeyRotation))>>)

\* lines 734-747: the group object made up for a temporary group
CreatedGroup(request, tmp_group_id) ==
    JObj(<<KV(KeyAxfId, JStr(Str(tmp_group_id))),
           KV(KeyName, JStr(GroupName)),
           KV(KeyGroupDefinitionId, JStr(request.def_id)),
           KV(KeyMappings,
              JArr([k \in 1..Len(request.mappings) |-> CamelMapping(request.mappings[k])]))>>)

\* line 759
IsRestartMessage(msg) ==
    /\ msg.t = "str"
    /\ \/ Contains(Lower(msg.s), StrRestart)
       \/ Contains(Lower(msg.s), StrSavedSuccessfully)

\* _request_reinitialize_device_groups, lines 661-682
ReinitializeEmits ==
    IF client /\ status_connected THEN <<"reinitializeDeviceGroups">> ELSE <<>>

\* fetch_discovery, lines 311-323, as called by a handler or a timer
FetchDiscovery == IF client THEN FetchDiscoveryEmits ELSE <<>>

Quiet == [signals |-> <<>>, emits |-> <<>>, scheduled |-> EmptyBag]

\* lines 703-732: what on_create_status reads from the payload
StatusParts(payload) ==
    IF payload.t # "obj" THEN [dict |-> FALSE]
    ELSE LET inner == Get(payload, KeyResponse)
             group_obj == IF inner.t = "obj" THEN inner ELSE payload
             data_obj == Get(payload, KeyData)
         IN [dict |-> TRUE,
             group_obj |-> group_obj,
             axf_id |-> FirstTruthy(group_obj, StatusIdKeys),
             status |-> Lower(Strip(Str(OrElse(Get(payload, KeyStatus), JStr(<<>>))))),
             msg |-> Get(payload, KeyMessage),
             err |-> OrElse(Get(payload, KeyError), Get(group_obj, KeyError)),
             tmp_group_id |-> IF data_obj.t = "obj" /\ Truthy(data_obj)
                              THEN FirstTruthy(data_obj, TemporaryIdKeys)
                              ELSE JNil,
             restart |-> IsRestartMessage(Get(payload, KeyMessage))]

\* on_create_status(payload) of request req, after done["v"] = True, from
\* what it read
OnCreateStatusOutcome(req, payload, parts) ==
    IF ~parts.dict
    THEN [Quiet EXCEPT !.signals = <<Sig("mound_group_created", payload)>>]
    ELSE CASE Truthy(parts.axf_id) ->
                [signals |-> <<Sig("mound_group_created", parts.group_obj)>>,
                 emits |-> FetchDiscovery,
                 scheduled |-> EmptyBag]
           [] ~Truthy(parts.axf_id) /\ parts.status = StrSuccess /\ ~Truthy(parts.err) ->
                IF Truthy(parts.tmp_group_id)
                THEN [signals |-> <<Sig("mound_group_created",
                                        CreatedGroup(requests[req], parts.tmp_group_id))>>,
                      emits |-> <<>>,
                      scheduled |-> SetToBag({Timer("fetch_discovery", 0)})]
                ELSE IF parts.restart
                THEN [signals |-> <<>>,
                      emits |-> ReinitializeEmits,
                      scheduled |->
                          SetToBag({Timer("_recheck_after_reinit", req)})
                              (+) SetToBag({Timer("_recheck_after_reinit", req)})]
                ELSE Quiet
           [] OTHER ->
                IF Truthy(parts.err)
                THEN [Quiet EXCEPT !.signals = <<Sig("mound_group_error", Str(parts.err))>>]
                ELSE IF parts.msg.t = "str" /\ parts.msg.s # <<>>
                THEN [Quiet EXCEPT !.signals = <<Sig("mound_group_error", parts.msg.s)>>]
                ELSE [Quiet EXCEPT !.signals = <<Sig("mound_group_created", parts.group_obj)>>]

\* what is kept of an outcome notification: its name and the id of the group
\* it carries
Summary(signal) ==
    [sig |-> signal.sig,
     id |-> IF signal.sig # "mound_group_error" /\ signal.arg.t = "obj"
            THEN Strip(Str(FirstTruthy(signal.arg, StatusIdKeys)))
            ELSE <<>>]

\* the request's record after its closures emitted the notifications
Noted(request, signals) ==
    IF request.resolved = Unresolved /\ signals # <<>>
    THEN [request EXCEPT !.resolved = Summary(signals[1])]
    ELSE request

\* the call took the restart path: it scheduled _recheck_after_reinit
Restarts(out) == \E t \in BagToSet(out.scheduled) : t.fn = "_recheck_after_reinit"

\* the backend's creation status, delivered to the handler the client has
\* registered for createDeviceGroupStatus and groupUpdateStatus
OnCreateStatus(payload, parts) ==
    LET req == status_handler
        out == OnCreateStatusOutcome(req, payload, parts)
    IN /\ Pending(timers) + Pending(out.scheduled) <= MaxTimers
       /\ requests' = [requests EXCEPT ![req] =
                           Noted([@ EXCEPT !.done = TRUE,
                                           !.legacy = @ \/ Restarts(out)], out.signals)]
       /\ timers' = Schedule(timers, out.scheduled)
       /\ hw_call' = [handler |-> "on_create_status", req |-> req, payload |-> payload,
                      scheduled |-> out.scheduled]
       /\ hw_signals' = out.signals
       /\ hw_emits' = out.emits
       /\ UNCHANGED <<outsideHardware, varsLiveness, varsDirectory, status_connected,
                      client, connected_devices, status_handler>>

\* a timer of the kind fn that is pending
PendingTimers(fn) == { t \in BagToSet(timers) : t.fn = fn }

\* self.client.emit raises: never, IoClient.emit catches whatever the
\* transport raises (io_client.py, lines 157-187)
EmitRaises == FALSE

\* lines 894-900: saveGroup is sent only from the except branch
RetryEmits ==
    IF EmitRaises THEN <<"saveGroup">> ELSE <<"createDeviceGroup">>

\* _retry_once, lines 884-902, when its timer fires; it starts no timer
RetryOnce ==
    \E t \in PendingTimers("_retry_once") :
        /\ timers' = timers (-) SetToBag({t})
        /\ hw_call' = [handler |-> "_retry_once", req |-> t.req]
        /\ hw_signals' = <<>>
        /\ hw_emits' = IF ~requests[t.req].done /\ client /\ status_connected
                       THEN RetryEmits ELSE <<>>
        /\ UNCHANGED <<outsideHardware, varsLiveness, varsDirectory, status_connected,
                       client, connected_devices, requests, status_handler>>

\* the fetch_discovery that line 752 posts, when its timer fires
FetchAfterCreated ==
    \E t \in PendingTimers("fetch_discovery") :
        /\ timers' = timers (-) SetToBag({t})
        /\ hw_call' = [handler |-> "fetch_discovery"]
        /\ hw_signals' = <<>>
        /\ hw_emits' = FetchDiscovery
        /\ UNCHANGED <<outsideHardware, varsLiveness, varsDirectory, status_connected,
                       client, connected_devices, requests, status_handler>>

\* a recheck that is allowed to create
RecheckCreates == TRUE

\* line 696: create_if_missing=False
RecheckCreateIfMissing == FALSE

\* what the recheck of timer t leaves behind, given the outcome of its
\* find_or_create_mound_group
RecheckEffects(t, desired, out, scheduled, noted) ==
    /\ out.creates => Len(requests) < MaxRequests
    /\ timers' = Schedule(timers (-) SetToBag({t}), scheduled)
    /\ requests' = IF out.creates THEN Append(noted, NewRequest(desired)) ELSE noted
    /\ status_handler' = IF out.creates THEN Len(requests) + 1 ELSE status_handler
    /\ hw_call' = [handler |-> "_recheck_after_reinit", req |-> t.req,
                   scheduled |-> scheduled]
    /\ hw_signals' = out.signals
    /\ hw_emits' = FetchDiscovery \o
                   (IF out.creates THEN <<"createTemporaryGroup">> ELSE <<>>)
    /\ UNCHANGED <<outsideHardware, varsLiveness, varsDirectory, status_connected,
                   client, connected_devices>>

RecheckWith(t, out) ==
    RecheckEffects(t, requests[t.req].desired, out, RetryTimerOf(out),
                   [requests EXCEPT ![t.req] = Noted(@, out.signals)])

\* _recheck_after_reinit, lines 684-699, when one of its timers fires:
\* fetch_discovery, then find_or_create_mound_group for the request's devices
RecheckAfterReinit ==
    \E t \in PendingTimers("_recheck_after_reinit") :
        RecheckWith(t, FindOrCreateOutcome(requests[t.req].desired, RecheckCreateIfMissing))

StrPleaseRestart == <<"P", "l", "e", "a", "s", "e", " ", "r", "e", "s", "t", "a", "r", "t">>

StrError == <<"e", "r", "r", "o", "r">>

StrConflict == <<"c", "o", "n", "f", "l", "i", "c", "t">>

StrFailed == <<"f", "a", "i", "l", "e", "d">>

\* {status: "success", data: {group_id: "G1"}}
RespTemporary ==
    JObj(<<KV(KeyStatus, JStr(StrSuccess)),
           KV(KeyData, JObj(<<KV(KeyGroupUnderscoreId, JStr(GidG1))>>))>>)

\* {status: "success", response: <the group G1>}
RespGroupObject ==
    JObj(<<KV(KeyStatus, JStr(StrSuccess)), KV(KeyResponse, MoundExact)>>)

\* {status: "success", message: "Please restart"}
RespLegacy ==
    JObj(<<KV(KeyStatus, JStr(StrSuccess)), KV(KeyMessage, JStr(StrPleaseRestart))>>)

\* {status: "error", error: "conflict"}
RespError ==
    JObj(<<KV(KeyStatus, JStr(StrError)), KV(KeyError, JStr(StrConflict))>>)

\* {status: "error", message: "failed"}
RespMessage ==
    JObj(<<KV(KeyStatus, JStr(StrError)), KV(KeyMessage, JStr(StrFailed))>>)

\* {status: "error", error: "conflict", id: "G1"}
RespErrorWithId ==
    JObj(<<KV(KeyStatus, JStr(StrError)), KV(KeyError, JStr(StrConflict)),
           KV(KeyId, JStr(GidG1))>>)

\* {status: "success"}
RespBareSuccess == JObj(<<KV(KeyStatus, JStr(StrSuccess))>>)

\* {}
RespEmpty == JObj(<<>>)

\* "ok", a payload that is no object
RespText == JStr(<<"o", "k">>)

StatusResponses ==
    { RespTemporary, RespGroupObject, RespLegacy, RespError, RespMessage,
      RespErrorWithId, RespBareSuccess, RespEmpty, RespText }

\* the table of what the handler reads, over the responses
StatusPartsOf == [payload \in StatusResponses |-> StatusParts(payload)]

CreateStatus ==
    /\ client /\ status_connected
    /\ status_handler # 0
    /\ \E payload \in StatusResponses : OnCreateStatus(payload, StatusPartsOf[payload])

\* the devices the protocol is followed for
FormationMappings == {DesiredTyped}

\* the creations one run of the protocol begins
MaxCreations == 1

\* find_or_create_mound_group, called at any time; of these calls at most
\* MaxCreations get as far as _create_mound_group's request
FormationWith(desired, create_if_missing, out) ==
    /\ out.creates => Len(requests) < MaxCreations
    /\ FindOrCreateWith(desired, create_if_missing, out)

FormationCall ==
    \E desired \in FormationMappings : \E create_if_missing \in BOOLEAN :
        FormationWith(desired, create_if_missing,
                      FindOrCreateOutcome(desired, create_if_missing))

\* the same calls, made while creations begun before are still pending
InterleavedCall ==
    \E desired \in FormationMappings : \E create_if_missing \in BOOLEAN :
        FindOrCreateMoundGroup(desired, create_if_missing)

\* what the backend answers a directory refresh with: no group, the group G1
RefreshPayloads == { Envelope("status_response", list) : list \in {<<>>, <<MoundExact>>} }

RefreshResults == { ConnectedGroupsResult(payload) : payload \in RefreshPayloads }

RefreshAnswer ==
    /\ client /\ status_connected
    /\ \E result \in RefreshResults : OnConnectedGroups(result)

NextFormation ==
    \/ Connect
    \/ Disconnect
    \/ OnConnect
    \/ OnDisconnect
    \/ FormationCall
    \/ CreateStatus
    \/ RetryOnce
    \/ FetchAfterCreated
    \/ RecheckAfterReinit
    \/ RefreshAnswer

\* creation requests that overlap: a second _create_mound_group registers
\* its own on_create_status while the first request is pending
NextInterleaving ==
    \/ Connect
    \/ OnConnect
    \/ InterleavedCall
    \/ CreateStatus
    \/ RetryOnce
    \/ FetchAfterCreated
    \/ RecheckAfterReinit

(***************************************************************************)
(* Claims about the creation protocol.                                     *)
(***************************************************************************)
\* the group objects the latest call notified as created
NotifiedCreated == EmittedWith(hw_signals, "mound_group_created")

\* the request resolved created with the group id gid
ResolvedCreated(request, gid) ==
    request.resolved = [sig |-> "mound_group_created", id |-> gid]

\* the latest call is find_or_create_mound_group, made while connected, for
\* devices that a request made before it resolved created with group G1
CalledAgainAfterCreated ==
    /\ hw_call.handler = "find_or_create_mound_group"
    /\ client /\ status_connected
    /\ \E i \in 1..Len(requests) :
          /\ requests[i].desired = hw_call.desired
          /\ ResolvedCreated(requests[i], GidG1)

\* C20: the response {status: "success", data: {group_id: "G1"}} to a
\* creation request resolves the request created with group id G1 and sends
\* no command, and a later find_or_create_mound_group for the same devices
\* resolves found with G1 and sends no command.
C20_CreatedThenFound ==
    /\ (hw_call.handler = "on_create_status" /\ hw_call.payload = RespTemporary) =>
          /\ Len(NotifiedCreated) = 1
          /\ Get(NotifiedCreated[1], KeyAxfId) = JStr(GidG1)
          /\ hw_emits = <<>>
    /\ CalledAgainAfterCreated =>
          /\ Len(EmittedWith(hw_signals, "mound_group_found")) = 1
          /\ IdOfGroup(EmittedWith(hw_signals, "mound_group_found")[1]) = GidG1
          /\ hw_emits = <<>>

\* the latest call notified found or created
OutcomeReached ==
    \/ EmittedWith(hw_signals, "mound_group_found") # <<>>
    \/ EmittedWith(hw_signals, "mound_group_created") # <<>>

\* a _recheck_after_reinit of request i is still to fire
RecheckPending(i) == BagIn(Timer("_recheck_after_reinit", i), timers)

\* request i took the restart path, the cache now holds a group that matches
\* its devices, every recheck has run, and nothing but found was notified
RefreshedAfterRechecks(i) ==
    /\ requests[i].legacy
    /\ HoldsMatch(groups, requests[i].desired)
    /\ ~RecheckPending(i)
    /\ requests[i].resolved.sig \in {"none", "mound_group_found"}

\* the restart answer sends a reinitialize command and notifies neither found
\* nor created, and a recheck notifies an outcome only over a matching group
LegacyWaitsForRefresh ==
    /\ (hw_call.handler = "on_create_status" /\ hw_call.payload = RespLegacy) =>
          /\ hw_emits = <<"reinitializeDeviceGroups">>
          /\ ~OutcomeReached
    /\ (hw_call.handler = "_recheck_after_reinit" /\ OutcomeReached) =>
          HoldsMatch(groups, requests[hw_call.req].desired)

\* C21: the answer {status: "success", message: "... restart"} makes the
\* protocol send a reinitialize command and notify neither found nor created;
\* a recheck notifies found only when the cache holds a matching group; and a
\* request on the restart path whose matching group a refresh has put into the
\* cache resolves found.
C21_LegacyResolvesAfterRefresh ==
    /\ LegacyWaitsForRefresh
    /\ \A i \in 1..Len(requests) :
          RefreshedAfterRechecks(i) => requests[i].resolved.sig = "mound_group_found"

\* a recheck that ran after the refresh resolves the request found
RecheckFound ==
    /\ hw_call.handler = "_recheck_after_reinit"
    /\ requests[hw_call.req].legacy
    /\ requests[hw_call.req].resolved = [sig |-> "mound_group_found", id |-> GidG1]

\* the latest call is the 1.2 s timer of a request no response has reached,
\* fired while connected
FallbackDue ==
    /\ hw_call.handler = "_retry_once"
    /\ ~requests[hw_call.req].done
    /\ client /\ status_connected

\* a timer of request i is pending
DeadlineArmed(i) == \E t \in BagToSet(timers) : t.req = i

\* the 1.2 s timer sends at most the one command createDeviceGroup
OneFallbackCommand ==
    hw_call.handler = "_retry_once" =>
        /\ hw_signals = <<>>
        /\ hw_emits = IF FallbackDue THEN <<"createDeviceGroup">> ELSE <<>>

\* C22: when the 1.2 s deadline of a request passes with no response and the
\* client connected, exactly the one fallback command createDeviceGroup is
\* sent, and a later deadline is armed at which saveGroup follows if that
\* too stays unanswered.
C22_SingleFallbackThenSaveGroup ==
    /\ OneFallbackCommand
    /\ FallbackDue => DeadlineArmed(hw_call.req)

\* the fallback was sent
FallbackSent == FallbackDue /\ hw_emits = <<"createDeviceGroup">>

OutcomeSignals == {"mound_group_found", "mound_group_created", "mound_group_error"}

\* the outcome notifications among the signals of a call
Outcomes(signals) == SelectSeq(signals, LAMBDA g : g.sig \in OutcomeSignals)

\* the handlers that run as closures of one creation request
RequestClosures == {"on_create_status", "_retry_once", "_recheck_after_reinit"}

\* this step is a call of a closure of request i
ClosureStepOf(i) ==
    /\ hw_call'.handler \in RequestClosures
    /\ hw_call'.req = i

\* no call of a request's closure notifies more than one outcome
OneOutcomePerCall ==
    hw_call.handler \in RequestClosures => Len(Outcomes(hw_signals)) <= 1

\* a closure of a request that has notified an outcome before notifies none
SilentOnceResolved ==
    \A i \in 1..Len(requests) :
        (requests[i].resolved # Unresolved /\ ClosureStepOf(i)) => Outcomes(hw_signals') = <<>>

\* C23: a creation request notifies at most one of mound_group_found,
\* mound_group_created and mound_group_error, whatever status responses
\* arrive and timers fire: no call notifies two, and a response or a timer
\* that comes after the request has resolved notifies nothing.
C23_ResolvesExactlyOnce == [][OneOutcomePerCall' /\ SilentOnceResolved]_vars

\* the latest call is a closure of a request that saw the connection drop
\* before it had notified an outcome
CalledAfterDrop ==
    /\ hw_call.handler \in RequestClosures
    /\ requests[hw_call.req].dropped

\* while the connection is down the 1.2 s timer sends nothing
RetryQuietWhileDown ==
    (hw_call.handler = "_retry_once" /\ ~(client /\ status_connected)) => hw_emits = <<>>

\* C24: a creation request that was pending when the connection dropped is
\* abandoned: from then on its status handler and its timers notify no
\* outcome and send no command, also after the connection is back.
C24_AbandonedOnDisconnect ==
    CalledAfterDrop => (hw_signals = <<>> /\ hw_emits = <<>>)

\* the fallback of a request that saw the connection drop, sent after the
\* reconnect
FallbackAfterDrop == CalledAfterDrop /\ hw_emits = <<"createDeviceGroup">>

\* the response carries an error field, or a message under a status that is
\* not success
CarriesError(payload) ==
    /\ payload.t = "obj"
    /\ \/ Truthy(Get(payload, KeyError))
       \/ /\ Get(payload, KeyStatus) # JStr(StrSuccess)
          /\ Get(payload, KeyMessage).t = "str"
          /\ Get(payload, KeyMessage).s # <<>>

\* the text of that error
ErrorText(payload) ==
    IF Truthy(Get(payload, KeyError))
    THEN Str(Get(payload, KeyError))
    ELSE Get(payload, KeyMessage).s

\* the latest call is on_create_status with a response that carries an error
ConflictAnswered ==
    hw_call.handler = "on_create_status" /\ CarriesError(hw_call.payload)

\* that call notified the error with its text and nothing else, sent no
\* command, started no timer, and left the request's fallback switched off
SurfacedAsError ==
    /\ Len(hw_signals) = 1
    /\ hw_signals[1].sig = "mound_group_error"
    /\ hw_signals[1].arg = ErrorText(hw_call.payload)
    /\ hw_emits = <<>>
    /\ hw_call.scheduled = EmptyBag
    /\ requests[hw_call.req].done

\* C25: a creation status response that carries an error field or a failure
\* message is notified as mound_group_error with that text at once, with no
\* created or found outcome, no reinitialize command and no fallback
\* afterwards, whatever else the response carries.
C25_ConflictSurfacesAsError == ConflictAnswered => SurfacedAsError

\* the same for the responses that carry no group id beside the error
ConflictWithoutIdSurfaces ==
    (ConflictAnswered /\ hw_call.payload # RespErrorWithId) => SurfacedAsError

\* creation request i was sent and has notified no outcome
StillPending(i) == Len(requests) >= i /\ requests[i].resolved = Unresolved

\* creation request i has notified an outcome
HasResolved(i) == Len(requests) >= i /\ requests[i].resolved # Unresolved

\* C26: a creation request does not stay pending for ever: with no response
\* in the retry window the fallback is sent, and when that is not answered
\* either the request resolves with an error.
C26_NeverPendingForever ==
    \A i \in 1..MaxRequests : StillPending(i) ~> HasResolved(i)

\* the fallback was sent for a request that is left without any timer and
\* without an outcome
FallbackSentAndIdle ==
    /\ FallbackSent
    /\ ~DeadlineArmed(hw_call.req)
    /\ requests[hw_call.req].resolved = Unresolved

\* responses of no recognized shape: no group id, no restart message, no
\* error and no message
UnrecognizedResponses == {RespEmpty, RespText, RespBareSuccess}

\* this step is on_create_status with a response of no recognized shape
UnrecognizedStep ==
    /\ hw_call'.handler = "on_create_status"
    /\ hw_call'.payload \in UnrecognizedResponses

\* the handler does not fail on such a response: it sends nothing and starts
\* no timer
UnrecognizedIsHandled ==
    (hw_call.handler = "on_create_status" /\ hw_call.payload \in UnrecognizedResponses) =>
        (hw_emits = <<>> /\ hw_call.scheduled = EmptyBag)

\* C27: a creation status response of no recognized shape is no signal: the
\* handler notifies no outcome for it and leaves the request as it was, so
\* that the 1.2 s fallback is not switched off by it.
C27_UnrecognizedIsNoSignal ==
    [][UnrecognizedStep =>
          /\ Outcomes(hw_signals') = <<>>
          /\ requests'[hw_call'.req].done = requests[hw_call'.req].done]_vars

CreationCommands == {"createTemporaryGroup", "createDeviceGroup", "saveGroup"}

\* the commands a call sent, as a set
Sent(emits) == { emits[k] : k \in 1..Len(emits) }

\* the latest call is a _recheck_after_reinit
RecheckRan == hw_call.handler = "_recheck_after_reinit"

\* the cache holds no group that matches the devices of the rechecked request
NothingMatches == ~HoldsMatch(groups, requests[hw_call.req].desired)

\* the recheck began no creation: no creation command, no timer
BeganNoCreation ==
    /\ Sent(hw_emits) \cap CreationCommands = {}
    /\ hw_call.scheduled = EmptyBag

FallbackCommands == {"createDeviceGroup", "saveGroup"}

\* a status response was delivered after request i was sent: it set the
\* done flag of request i or of a request sent later
AnsweredSince(i) == \E j \in i..Len(requests) : requests[j].done

\* the 1.2 s timer of a request whose own handler ran sends no fallback
OwnResponseSuppressesFallback ==
    (hw_call.handler = "_retry_once" /\ requests[hw_call.req].done) =>
        Sent(hw_emits) \cap FallbackCommands = {}

\* C29: when a status response arrived between the sending of a creation
\* request and its 1.2 s deadline, the deadline sends no fallback command,
\* also when a second creation request was started in between.
C29_ResponseSuppressesFallback ==
    (hw_call.handler = "_retry_once" /\ AnsweredSince(hw_call.req)) =>
        Sent(hw_emits) \cap FallbackCommands = {}

\* two requests were sent, the response that followed reached the handler of
\* the second, and the timer of the first sent its fallback
FallbackDespiteResponse ==
    /\ hw_call.handler = "_retry_once"
    /\ hw_call.req = 1
    /\ Len(requests) = 2
    /\ ~requests[1].done /\ requests[2].done
    /\ hw_emits = <<"createDeviceGroup">>

(***************************************************************************)
(* Claims about the active set and the last-seen entries.                  *)
(***************************************************************************)
\* this step is the processing of a telemetry packet that names the id d
NamedByPacket(d) ==
    /\ hw_call'.handler = "_on_json"
    /\ ExtractedIds[hw_signals'[1].arg].ok
    /\ d \in ExtractedIds[hw_signals'[1].arg].ids

\* the ids that have a last-seen entry are the active ones
RetainedAreActive == DOMAIN device_last_seen = active_devices

\* this step is the processing of a packet or a move of the clock
PacketOrTick == hw_call'.handler = "_on_json" \/ now' # now

\* the processing of packets and the passing of time keep the two equal
AgreeUntilForcedEmpty ==
    [][(PacketOrTick /\ RetainedAreActive) => RetainedAreActive']_vars

\* C30: in every state the ids with a retained last-seen entry are exactly
\* the active ones (stale entries are deleted, and emptying the active set
\* by force leaves no entry), and an id enters the active set only by a
\* telemetry packet that names it.
C30_ActiveAgreesWithRetained ==
    [][/\ RetainedAreActive'
       /\ \A d \in active_devices' \ active_devices : NamedByPacket(d)]_vars

\* after the active set was emptied by force, a packet that names d2 alone
\* brought d1 back into it
ReenteredUnnamed ==
    /\ hw_call.handler = "_on_json"
    /\ hw_call.prev_active = {}
    /\ hw_signals[1].arg = Dev(KeyId, IdD2)
    /\ active_devices = {IdD1, IdD2}

(***************************************************************************)
(* Claims about the group cache across connections.                        *)
(***************************************************************************)
\* the latest call ran the match of find_or_create_mound_group and notified
\* a cached group as found
NotifiedFound ==
    /\ hw_call.handler \in {"find_or_create_mound_group", "_recheck_after_reinit"}
    /\ Len(hw_signals) = 1
    /\ hw_signals[1].sig = "mound_group_found"

\* what the handlers of a connection do hold: a group list event replaces the
\* whole cache, so right after one the cache is the list of this connection
RefreshReplacesCache ==
    hw_call.handler = "_on_connected_groups" => groups_current

\* C31: find_or_create_mound_group resolves found only against a group that
\* the backend reported since the connection last changed (disconnect(),
\* connect() or the disconnect event), never against one cached before.
C31_FoundOnlyAgainstCurrent == NotifiedFound => groups_current

\* a group cached during one connection is notified as found after
\* disconnect() and connect(), before the new connection reported anything
FoundAgainstStale ==
    /\ NotifiedFound
    /\ hw_call.handler = "find_or_create_mound_group"
    /\ client
    /\ ~groups_current

(***************************************************************************)
(* Claims about IoClient.stop and a connect attempt in progress.           *)
(***************************************************************************)
\* stop() was called and has returned, the loop has ended, and start() was
\* not called since
StoppedAndEnded == stop_flag /\ stopPc = "idle" /\ pc = "done"

\* what stop() does ensure: right after its disconnect step the transport
\* is not connected
StopDisconnects ==
    [][(stopPc = "flagged" /\ stopPc' # "flagged") => ~sio_connected']_vars

\* C33: once stop() has been called and the reconnect loop has ended, the
\* transport is not connected, whatever the loop was doing when stop() ran.
C33_StoppedMeansDisconnected == StoppedAndEnded => ~sio_connected

\* the connect attempt that was in progress during stop() succeeded after
\* it: the loop has ended and left the transport connected
ConnectedAfterStop == StoppedAndEnded /\ sio_connected

(***************************************************************************)
(* Events of a client that connect() has replaced.                         *)
(***************************************************************************)
\* the clients of two connections and the events they deliver, with the
\* group lists and device statuses the backend reports
NextEpochs ==
    \/ Connect
    \/ Disconnect
    \/ OnConnect
    \/ OnDisconnect
    \/ ReplacedConnects
    \/ ReplacedDrops
    \/ RefreshAnswer
    \/ ConnectionStatusUpdate

\* this step is the handling of a connect or disconnect event that the
\* replaced client delivered while the service holds its successor
ReplacedEventStep ==
    /\ client
    /\ replaced_sio' # replaced_sio
    /\ replaced_sio' \in {"connected", "closed"}

\* the connection status the latest call reported
StatusReported == EmittedWith(hw_signals, "connection_status_changed")

\* while the service holds no client the handlers write no status.connected
NoClientNoFlag == [][(~client /\ ~client') => status_connected' = status_connected]_vars

\* C32: a connect or disconnect event delivered by a client that connect()
\* has stopped and replaced changes neither the current client's
\* status.connected nor the connection status reported.
C32_ReplacedClientIsIgnored ==
    [][ReplacedEventStep =>
          /\ status_connected' = status_connected
          /\ StatusReported' = <<>>]_vars

\* the replaced client's connect event made the current client, which has
\* not connected yet, read connected, and "Connected" was reported
ConnectedByReplaced ==
    /\ hw_call.handler = "_on_connect"
    /\ hw_call.sender = "replaced"
    /\ client
    /\ status_connected
    /\ StatusReported = <<"Connected">>

(***************************************************************************)
(* HardwareService.auto_connect: the background thread, lines 1042-1095.   *)
(* The thread tests self._stop_flag of the service (line 1045), which is   *)
(* created in __init__ (line 45) and set nowhere.                          *)
(***************************************************************************)
\* the checks of one wait, range(25) in lines 1059 and 1078, shortened
MaxWaitChecks == 2

\* self.client and self.client.status.connected
ReportsConnected == client /\ status_connected

At(pc_name) == [pc |-> pc_name, left |-> 0]

\* a step of the thread that calls neither connect() nor disconnect(): it
\* moves on and emits the statuses given
ThreadStep(next, statuses) ==
    /\ auto' = next
    /\ hw_call' = [handler |-> "auto_connect", at |-> auto.pc]
    /\ hw_signals' = [k \in 1..Len(statuses) |-> Sig("connection_status_changed", statuses[k])]
    /\ hw_emits' = <<>>
    /\ UNCHANGED <<outsideLifecycle, varsLiveness, varsDirectory, varsFormation,
                   status_connected, client, connected_devices, replaced_sio, shutdown>>

\* auto_connect(), lines 1036-1095: starts the thread (MainController.start)
AutoConnectCall ==
    /\ auto.pc \in {"none", "done"}
    /\ auto' = At("top")
    /\ shutdown' = FALSE
    /\ hw_call' = [handler |-> "auto_connect", at |-> "call"]
    /\ hw_signals' = <<>>
    /\ hw_emits' = <<>>
    /\ UNCHANGED <<outsideLifecycle, varsLiveness, varsDirectory, varsFormation,
                   status_connected, client, connected_devices, replaced_sio>>

\* lines 1045-1051: the head of the loop
AutoTop ==
    /\ auto.pc = "top"
    /\ IF ReportsConnected
       THEN ThreadStep(At("done"), <<"Connected">>)
       ELSE ThreadStep(At("discovering"), <<"Auto-connecting">>)

\* lines 1054-1056: _discover_socket_port returns a port or None
AutoDiscovery ==
    /\ auto.pc = "discovering"
    /\ \E found \in BOOLEAN :
          IF found
          THEN ThreadStep(At("connect_found"), <<"Found port">>)
          ELSE ThreadStep(At("fallback"), <<>>)

\* lines 1057 and 1076: self.connect(host, port)
AutoConnects ==
    /\ auto.pc \in {"connect_found", "connect_fallback"}
    /\ ConnectEffects("auto_connect")
    /\ auto' = [pc |-> IF auto.pc = "connect_found" THEN "waiting" ELSE "waiting_fallback",
                left |-> MaxWaitChecks]
    /\ UNCHANGED shutdown

\* lines 1059-1062 and 1078-1081: one check of the wait, then sleep(0.2)
AutoWait ==
    /\ auto.pc \in {"waiting", "waiting_fallback"}
    /\ IF ReportsConnected
       THEN ThreadStep(At("done"), <<>>)
       ELSE IF auto.left > 1
            THEN ThreadStep([auto EXCEPT !.left = @ - 1], <<>>)
            ELSE ThreadStep(At(IF auto.pc = "waiting" THEN "fallback" ELSE "after"), <<>>)

\* lines 1069-1075 and 1084: the fallback port is tried only if not connected
AutoFallback ==
    /\ auto.pc = "fallback"
    /\ IF ReportsConnected
       THEN ThreadStep(At("done"), <<>>)
       ELSE ThreadStep(At("connect_fallback"), <<"Trying port">>)

\* lines 1084-1087
AutoAfter ==
    /\ auto.pc = "after"
    /\ IF ReportsConnected
       THEN ThreadStep(At("done"), <<>>)
       ELSE ThreadStep(At("disconnecting"), <<"Retrying in 5s">>)

\* line 1090: self.disconnect()
AutoDisconnect ==
    /\ auto.pc = "disconnecting"
    /\ DisconnectEffects("auto_connect")
    /\ auto' = At("sleeping")
    /\ UNCHANGED <<replaced_sio, shutdown>>

\* line 1091: time.sleep(5) returns
AutoSleep ==
    /\ auto.pc = "sleeping"
    /\ ThreadStep(At("top"), <<>>)

\* the thread beside the owner's calls and the events of the client
NextAutoConnect ==
    \/ AutoConnectCall
    \/ AutoTop
    \/ AutoDiscovery
    \/ AutoConnects
    \/ AutoWait
    \/ AutoFallback
    \/ AutoAfter
    \/ AutoDisconnect
    \/ AutoSleep
    \/ Connect
    \/ Disconnect
    \/ OnConnect
    \/ OnDisconnect

\* this step creates and starts an IoClient
ClientCreated == hw_call'.handler = "connect" /\ <<hw_call, auto>>' # <<hw_call, auto>>

\* the thread is at one of its tests of the client
AtTest == auto.pc \in {"top", "waiting", "waiting_fallback", "fallback", "after"}

\* each time the thread tests the client and finds it connected, it ends
EndsWhenFoundConnected ==
    [][(AtTest /\ ReportsConnected /\ auto' # auto) => auto'.pc = "done"]_vars

\* without a running thread nothing creates a client after the shutdown
NoThreadNoClient ==
    [][(shutdown /\ shutdown' /\ auto.pc \in {"none", "done"}) => ~ClientCreated]_vars

\* C34: after the owner called disconnect(), no IoClient is created or
\* started until connect() or auto_connect() is called again, however the
\* thread of auto_connect is interleaved; and the thread ends when it finds
\* the client connected.
C34_NoClientAfterShutdown ==
    [][/\ (shutdown /\ shutdown') => ~ClientCreated
       /\ (AtTest /\ ReportsConnected /\ auto' # auto) => auto'.pc = "done"]_vars

\* the owner has shut the service down, and the thread, still running, has
\* created a client since
ClientAfterShutdown ==
    /\ shutdown
    /\ client
    /\ hw_call.handler = "connect"
    /\ hw_call.caller = "auto_connect"

(***************************************************************************)
(* HardwareService._post_to_qt and _drain_qt_call_queue, lines 60-90.      *)
(* Callables are numbered in the order of their append.                    *)
(***************************************************************************)
\* the callables handed to _post_to_qt in one run
MaxPosts == 3

\* every step of the queue leaves the rest of the service alone
outsideQt ==
    <<varsReconnect, varsDispatch, varsDiscovery, varsLiveness, varsService,
      varsDirectory, varsFormation, varsLifecycle>>

\* lines 83-84: under the lock, self._qt_call_queue.append(fn)
PostAppend(p) ==
    /\ qt_posting[p] = 0
    /\ Len(qt_posted) < MaxPosts
    /\ LET fn == Len(qt_posted) + 1
       IN /\ qt_call_queue' = Append(qt_call_queue, fn)
          /\ qt_posted' = Append(qt_posted, fn)
          /\ qt_posting' = [qt_posting EXCEPT ![p] = fn]
    /\ UNCHANGED <<outsideQt, qt_drains, qt_drain, qt_ran>>

\* line 85: QMetaObject.invokeMethod(..., QueuedConnection) queues one
\* invocation of the slot
PostSchedule(p) ==
    /\ qt_posting[p] # 0
    /\ qt_drains' = qt_drains + 1
    /\ qt_posting' = [qt_posting EXCEPT ![p] = 0]
    /\ UNCHANGED <<outsideQt, qt_call_queue, qt_drain, qt_posted, qt_ran>>

\* lines 86-90: invokeMethod raises; fn() is called on the posting thread,
\* what it raises is swallowed, and fn stays in the queue
PostScheduleFails(p) ==
    /\ qt_posting[p] # 0
    /\ \E raised \in BOOLEAN :
          qt_ran' = Append(qt_ran, [fn |-> qt_posting[p], by |-> "poster", raised |-> raised])
    /\ qt_posting' = [qt_posting EXCEPT ![p] = 0]
    /\ UNCHANGED <<outsideQt, qt_call_queue, qt_drains, qt_drain, qt_posted>>

\* the Qt event loop delivers a queued invocation: _drain_qt_call_queue
\* begins
DrainBegins ==
    /\ qt_drains > 0
    /\ qt_drain.pc = "idle"
    /\ qt_drains' = qt_drains - 1
    /\ qt_drain' = [pc |-> "pop", fn |-> 0]
    /\ UNCHANGED <<outsideQt, qt_call_queue, qt_posting, qt_posted, qt_ran>>

\* lines 69-74: under the lock, pop(0) of a queue that is not empty;
\* return if there was nothing
DrainPop ==
    /\ qt_drain.pc = "pop"
    /\ IF qt_call_queue # <<>>
       THEN /\ qt_drain' = [pc |-> "run", fn |-> Head(qt_call_queue)]
            /\ qt_call_queue' = Tail(qt_call_queue)
       ELSE /\ qt_drain' = NotDraining
            /\ UNCHANGED qt_call_queue
    /\ UNCHANGED <<outsideQt, qt_posting, qt_drains, qt_posted, qt_ran>>

\* lines 75-78: fn(), whatever it raises is swallowed, and the loop goes on
DrainRun ==
    /\ qt_drain.pc = "run"
    /\ \E raised \in BOOLEAN :
          qt_ran' = Append(qt_ran, [fn |-> qt_drain.fn, by |-> "qt", raised |-> raised])
    /\ qt_drain' = [pc |-> "pop", fn |-> 0]
    /\ UNCHANGED <<outsideQt, qt_call_queue, qt_posting, qt_drains, qt_posted>>

Post == \E p \in Posters : PostAppend(p)

ScheduleDrain == \E p \in Posters : PostSchedule(p)

ScheduleDrainFails == \E p \in Posters : PostScheduleFails(p)

NextQtQueue ==
    \/ Post
    \/ ScheduleDrain
    \/ ScheduleDrainFails
    \/ DrainBegins
    \/ DrainPop
    \/ DrainRun

(***************************************************************************)
(* Claims about the calls marshaled to the Qt thread.                      *)
(***************************************************************************)
\* the callables run so far, in the order they ran
RanFns == [k \in 1..Len(qt_ran) |-> qt_ran[k].fn]

\* every run was made by the Qt thread
RanOnQtOnly == \A k \in 1..Len(qt_ran) : qt_ran[k].by = "qt"

\* the callables ran in the order of their posting, none twice
RanInPostedOrder ==
    /\ Len(qt_ran) <= Len(qt_posted)
    /\ RanFns = SubSeq(qt_posted, 1, Len(qt_ran))

\* no post is half done, no invocation is queued, the slot is not running
QtAtRest ==
    /\ \A p \in Posters : qt_posting[p] = 0
    /\ qt_drains = 0
    /\ qt_drain.pc = "idle"

\* as long as every scheduling succeeded: FIFO, each callable once, all of
\* them run when the queue is at rest, also after one that raised
FifoWhileSchedulingWorks ==
    RanOnQtOnly => (RanInPostedOrder /\ (QtAtRest => RanFns = qt_posted))

\* C35: a callable handed to _post_to_qt runs exactly once, on the Qt
\* thread, in the order of posting, for every interleaving of the posting
\* threads with the drain and also when scheduling the drain fails; a
\* callable that raises does not stop the ones after it.
C35_PostedRunsOnceInOrder ==
    /\ RanOnQtOnly
    /\ RanInPostedOrder
    /\ QtAtRest => RanFns = qt_posted

\* scheduling failed for callable 1: it ran on the posting thread, stayed in
\* the queue, and the drain scheduled for callable 2 ran it again
RanTwice ==
    /\ Len(qt_ran) >= 2
    /\ qt_ran[1].fn = 1 /\ qt_ran[1].by = "poster"
    /\ qt_ran[2].fn = 1 /\ qt_ran[2].by = "qt"

(***************************************************************************)
(* Claims about find_or_create_mound_group while not connected.            *)
(***************************************************************************)
\* this step is a call of find_or_create_mound_group
FindOrCreateStep == hw_call'.handler = "find_or_create_mound_group"

\* the call emitted one mound_group_error and no other signal
OneError(signals) == Len(signals) = 1 /\ signals[1].sig = "mound_group_error"

\* the step began no creation: no command, no handler, no timer, no request
NothingBegun ==
    /\ hw_emits' = <<>>
    /\ status_handler' = status_handler
    /\ timers' = timers
    /\ requests' = requests

\* the service holds a client that is not connected, and no cached group
\* maps the devices asked for
DownAndUnmatched ==
    client /\ ~status_connected /\ ~HoldsMatch(groups, hw_call'.desired)

\* C36 as stated: called while not connected, the call resolves error and
\* changes nothing else, both without a client and with a client that is
\* not connected and no matching cached group.
C36_NotConnectedResolvesError ==
    [][FindOrCreateStep =>
          /\ ~client => (OneError(hw_signals') /\ NothingBegun)
          /\ DownAndUnmatched => (OneError(hw_signals') /\ NothingBegun)]_vars

\* C36: without a client the call emits exactly one mound_group_error and
\* begins nothing; with a client that is not connected and no matching
\* cached group it begins nothing either, and it emits exactly one
\* mound_group_error if create_if_missing is true and no signal if it is
\* false.
C36_NotConnectedBeginsNothing ==
    [][FindOrCreateStep =>
          /\ ~client => (OneError(hw_signals') /\ NothingBegun)
          /\ DownAndUnmatched =>
                /\ NothingBegun
                /\ IF hw_call'.create_if_missing
                   THEN OneError(hw_signals')
                   ELSE hw_signals' = <<>>]_vars

\* 07-AB, u1, w1 asked for with creation allowed, the client not connected
\* and nothing cached: one error, nothing sent, no request
C36_Witness ==
    /\ hw_call.handler = "find_or_create_mound_group"
    /\ hw_call.create_if_missing
    /\ client /\ ~status_connected
    /\ groups = <<>>
    /\ hw_signals = <<Sig("mound_group_error", NotConnectedSocket)>>
    /\ hw_emits = <<>>
    /\ requests = <<>>
    /\ timers = EmptyBag

\* the same call with create_if_missing false: no signal at all
SilentWhenNotCreating ==
    /\ hw_call.handler = "find_or_create_mound_group"
    /\ ~hw_call.create_if_missing
    /\ client /\ ~status_connected
    /\ groups = <<>>
    /\ hw_signals = <<>>

(***************************************************************************)
(* Claims about the device type of the device list.                        *)
(***************************************************************************)
\* the item carries no type field
Untyped(item) == \A k \in 1..Len(TypeKeys) : ~HasKey(item, TypeKeys[k])

\* the first two characters of the item's axfId
PrefixOf(item) == SubSeq(Get(item, KeyAxfId).s, 1, 2)

\* the device list the latest call notified
NotifiedDevices == EmittedWith(hw_signals, "device_list_updated")[1]

\* the k-th device of the payload, which carries no type and whose id begins
\* with one of the prefixes, is notified with that prefix as its type
TypeIsPrefix(prefixes) ==
    (hw_call.handler = "_on_connected_device_list" /\ hw_call.payload \in PrefixPayloads) =>
        \A k \in 1..Len(hw_call.payload.e) :
            LET item == hw_call.payload.e[k]
            IN (Untyped(item) /\ PrefixOf(item) \in prefixes) =>
                  /\ Len(NotifiedDevices) = Len(hw_call.payload.e)
                  /\ NotifiedDevices[k][3] = PrefixOf(item)

\* what the code does infer: the prefixes 06, 07, 08 and 11
InfersFourPrefixes == TypeIsPrefix(DeviceTypes)

\* C37: for every axf_id whose first two characters are one of 06, 07, 08,
\* 10, 11, 12 and no type in the payload, the device-list notification
\* carries those two characters as the device type.
C37_TypeFromPrefix == TypeIsPrefix(KnownPrefixes)

\* the device 10.51 without a type is notified with an empty device type
TypeLostForTen ==
    /\ hw_call.handler = "_on_connected_device_list"
    /\ hw_call.payload = JArr(<<TypedDevice(<<"1", "0">>, <<>>)>>)
    /\ NotifiedDevices = <<<<StrUnknown, <<"1", "0", ".", "5", "1">>, <<>>>>>>

(***************************************************************************)
(* Claims about the ids a telemetry payload contributes.                   *)
(***************************************************************************)
\* the id a device object carries, under whichever of its three keys
IdsCarriedBy(item) ==
    { v.s : v \in { w \in { Get(item, key) : key \in {KeyDeviceId, KeyDeviceUnderscoreId, KeyId} } :
                      w.t = "str" /\ w.s # <<>> } }

\* the payload has one of the accepted shapes: a device object or a
\* container object, or a list of device objects
AcceptedTelemetry(data) ==
    \/ data.t = "obj"
    \/ data.t = "arr" /\ \A i \in 1..Len(data.e) : data.e[i].t = "obj"

\* the ids an accepted payload carries: its own, those of the objects it
\* lists, those of its devices field (the objects of a list, the keys of a
\* map)
CarriedIds(data) ==
    IF data.t = "arr" THEN UNION { IdsCarriedBy(data.e[i]) : i \in 1..Len(data.e) }
    ELSE LET devs == Get(data, KeyDevices)
         IN CASE devs.t = "arr" -> UNION { IdsCarriedBy(devs.e[i]) : i \in 1..Len(devs.e) }
              [] devs.t = "obj" -> { devs.e[i].k : i \in 1..Len(devs.e) }
              [] OTHER -> IdsCarriedBy(data)

\* this step is _on_json for a payload of an accepted shape (the clock
\* stands still while a handler runs)
AcceptedPacketStep ==
    /\ hw_call'.handler = "_on_json"
    /\ now' = now
    /\ AcceptedTelemetry(hw_signals'[1].arg)

\* the step stamped exactly the ids the payload carries: each has the time
\* of the packet, and every other entry that is left is as it was
StampedExactlyCarried ==
    LET carried == CarriedIds(hw_signals'[1].arg)
    IN /\ \A d \in carried :
            d \in DOMAIN device_last_seen' /\ device_last_seen'[d] = now
       /\ \A d \in (DOMAIN device_last_seen') \ carried :
            d \in DOMAIN device_last_seen /\ device_last_seen'[d] = device_last_seen[d]

\* the entries the step removed were older than the decay window
RemovedOnlyStale ==
    \A d \in (DOMAIN device_last_seen) \ (DOMAIN device_last_seen') :
        now - device_last_seen[d] > ActiveDeviceDecay

\* C38 as stated: a payload of an accepted shape contributes exactly the
\* ids it carries, and one that carries no id leaves the last-seen
\* timestamps unchanged.
C38_ContributesCarriedIds ==
    [][AcceptedPacketStep =>
          /\ StampedExactlyCarried
          /\ CarriedIds(hw_signals'[1].arg) = {} => device_last_seen' = device_last_seen]_vars

\* C38: a payload of an accepted shape contributes exactly the ids it
\* carries; one that carries no id stamps none; as on every packet, the
\* entries older than the decay window are removed and no other.
C38_ContributesCarriedIdsAndDecays ==
    [][AcceptedPacketStep => (StampedExactlyCarried /\ RemovedOnlyStale)]_vars

\* a container whose devices field is a map keyed by d1 and d2, received at
\* a time after 0: both ids are stamped with that time
C38_Witness ==
    /\ hw_call.handler = "_on_json"
    /\ hw_signals[1].arg =
          JObj(<<KV(KeyDevices, JObj(<<KV(IdD1, JObj(<<>>)), KV(IdD2, JObj(<<>>))>>))>>)
    /\ now > 0
    /\ device_last_seen = [d \in {IdD1, IdD2} |-> now]

\* the empty object, received when the only entry was stale, removed it
StaleRemovedByEmpty ==
    /\ hw_call.handler = "_on_json"
    /\ hw_signals[1].arg = JObj(<<>>)
    /\ seen_at # <<>>
    /\ device_last_seen = <<>>

(***************************************************************************)
(* The creation payload of createTemporaryGroup.                           *)
(***************************************************************************)
\* a getGroupDefinitionsStatus event
DefinitionsReported ==
    \E list \in DefinitionLists : OnGroupDefinitionsWith(JArr(list), CachedListOf(JArr(list)))

\* the devices asked for: all three, and none for the lower landing zone
CreationDesired == {DesiredTyped, DesiredPartial}

\* find_or_create_mound_group with nothing cached that matches
CreationCall ==
    \E desired \in CreationDesired : \E create_if_missing \in BOOLEAN :
        FormationWith(desired, create_if_missing,
                      FindOrCreateOutcome(desired, create_if_missing))

NextCreation ==
    \/ Connect
    \/ OnConnect
    \/ DefinitionsReported
    \/ CreationCall

\* the latest call sent createTemporaryGroup; its payload is kept in the
\* request it began
CreationSent ==
    /\ hw_call.handler = "find_or_create_mound_group"
    /\ hw_emits = <<"createTemporaryGroup">>

SentMappings == requests[Len(requests)].mappings

\* the first cached definition of the mound, if any, and the required
\* positions it lists
MoundPlaces ==
    { i \in 1..Len(group_definitions) :
        Get(group_definitions[i], KeyAxfUnderscoreId) = JStr(StrPitchingMound) }

ListedPositions ==
    IF MoundPlaces = {} THEN <<>>
    ELSE Get(group_definitions[CHOOSE i \in MoundPlaces : \A j \in MoundPlaces : i <= j],
             KeyRequiredUnderscoreGroupUnderscorePositions).e

\* the three defaults: Launch Zone (0, -90), Upper Landing Zone (1, 0),
\* Lower Landing Zone (2, 0)
StatedDefaults ==
    <<[pos |-> PosLaunch, midx |-> 0, rot |-> -90],
      [pos |-> PosUpper, midx |-> 1, rot |-> 0],
      [pos |-> PosLower, midx |-> 2, rot |-> 0]>>

\* what a listed position states: its name, its index, its rotation (0 when
\* it states none)
Stated(r) ==
    [pos |-> IF HasKey(r, KeyPositionUnderscoreId)
             THEN Get(r, KeyPositionUnderscoreId).s ELSE Get(r, KeyPositionId).s,
     midx |-> IF HasKey(r, KeyMappingUnderscoreIndex)
              THEN Get(r, KeyMappingUnderscoreIndex).n ELSE Get(r, KeyMappingIndex).n,
     rot |-> IF HasKey(r, KeyRotation) THEN Get(r, KeyRotation).n ELSE 0]

\* the required positions: those of the definition, or the defaults when no
\* definition of the mound that lists a position is cached
RequiredStated ==
    IF ListedPositions # <<>>
    THEN [k \in 1..Len(ListedPositions) |-> Stated(ListedPositions[k])]
    ELSE StatedDefaults

\* the device asked for at a position; none at a position that is none of
\* the three zones
AskedFor(desired, pos) ==
    IF pos = PosLaunch THEN desired.launch
    ELSE IF pos = PosUpper THEN desired.upper
    ELSE IF pos = PosLower THEN desired.lower
    ELSE <<>>

\* the mapping the payload carries for a required position
MappingFor(p, desired) ==
    JObj(<<KV(KeyPositionUnderscoreId, JStr(p.pos)),
           KV(KeyMappingUnderscoreIndex, JInt(p.midx)),
           KV(KeyDeviceUnderscoreId, JStr(AskedFor(desired, p.pos))),
           KV(KeyRotation, JInt(p.rot))>>)

\* C39 as stated: the payload holds one mapping per required position of the
\* cached mound definition, with the position's index and rotation and the
\* device asked for; without a usable definition, the three defaults.
C39_OneMappingPerPosition ==
    CreationSent =>
        SentMappings = [k \in 1..Len(RequiredStated) |->
                           MappingFor(RequiredStated[k], hw_call.desired)]

\* the required positions for which a device was asked
Filled(desired) ==
    SelectSeq(RequiredStated, LAMBDA p : AskedFor(desired, p.pos) # <<>>)

\* C39: the payload holds, in the order of the definition, one mapping per
\* required position for which a device id was asked (a position that is
\* none of the three zones, or whose device id is empty, gets none), with
\* the position's index and rotation and that device id; without a usable
\* definition the positions are the three defaults.
C39_OneMappingPerFilledPosition ==
    CreationSent =>
        SentMappings = [k \in 1..Len(Filled(hw_call.desired)) |->
                           MappingFor(Filled(hw_call.desired)[k], hw_call.desired)]

\* 07-AB, u1, w1 asked for while the cached definition gives the zones the
\* indexes 2, 0, 1 and the rotations 90, 0, 180
C39_Witness ==
    /\ CreationSent
    /\ hw_call.desired = DesiredTyped
    /\ group_definitions = <<DefinitionOf(StrPitchingMound, PositionsTurned)>>
    /\ SentMappings =
          <<MappingFor([pos |-> PosLaunch, midx |-> 2, rot |-> 90], DesiredTyped),
            MappingFor([pos |-> PosUpper, midx |-> 0, rot |-> 0], DesiredTyped),
            MappingFor([pos |-> PosLower, midx |-> 1, rot |-> 180], DesiredTyped)>>

\* nothing cached and no device asked for the lower landing zone: the
\* payload holds two of the three defaults
TwoOfThreeDefaults ==
    /\ CreationSent
    /\ hw_call.desired = DesiredPartial
    /\ group_definitions = <<>>
    /\ Len(SentMappings) = 2

(***************************************************************************)
(* Specifications.                                                         *)
(***************************************************************************)
Init == InitReconnect /\ InitDispatch /\ InitDiscovery /\ InitLiveness /\ InitService

SpecReconnect == Init /\ [][NextReconnect]_vars

\* the loop thread and the thread inside stop() keep running; connect() and
\* the sleeps return (bounded timeout, finite delays)
FairSpecReconnect ==
    Init /\ [][NextLoop]_vars /\ WF_vars(LoopStep) /\ WF_vars(StopStep)

SpecDispatch == Init /\ [][NextDispatch]_vars

SpecDiscovery == Init /\ [][NextDiscovery]_vars

SpecLiveness == Init /\ [][NextLiveness]_vars

SpecPresence == Init /\ [][NextPresence]_vars

SpecDirectory == Init /\ [][NextDirectory]_vars

SpecGroups == Init /\ [][NextGroups]_vars

SpecFormation == Init /\ [][NextFormation]_vars

\* a pending single-shot timer fires: the Qt event loop keeps running
FairSpecFormation ==
    /\ SpecFormation
    /\ WF_vars(RetryOnce)
    /\ WF_vars(FetchAfterCreated)
    /\ WF_vars(RecheckAfterReinit)

SpecInterleaving == Init /\ [][NextInterleaving]_vars

SpecEpochs == Init /\ [][NextEpochs]_vars

SpecAutoConnect == Init /\ [][NextAutoConnect]_vars

SpecQtQueue == Init /\ [][NextQtQueue]_vars

SpecDeviceTypes == Init /\ [][NextDeviceTypes]_vars

SpecCreation == Init /\ [][NextCreation]_vars

Next == NextReconnect \/ NextDispatch \/ NextDiscovery \/ NextLiveness \/ NextPresence
        \/ NextDirectory \/ NextGroups \/ NextFormation \/ NextInterleaving
        \/ NextEpochs \/ NextAutoConnect \/ NextQtQueue \/ NextDeviceTypes
        \/ NextCreation

Spec == Init /\ [][Next]_vars

====
